---- MODULE Spec2Model ----
(***************************************************************************)
(* Model of the backtracking matcher of src/src/matcher/mod.rs.            *)
(*                                                                         *)
(* The Matcher is an interpreter that walks an expression tree against a   *)
(* target.  Its recursion (compute_match calling group_match,              *)
(* alternation_match, concatenation_match, which call compute_match again) *)
(* is modelled by an explicit call stack of frames: one Step either calls  *)
(* compute_match on the node the top frame designates (a leaf is evaluated *)
(* at once, a composite node pushes a frame) or lets the top frame consume *)
(* the result its callee returned.  The loops of the code (the repetition  *)
(* loop of a quantified group, the backtracking loop of a concatenation,   *)
(* the offset loop of next) therefore advance one iteration per Step, and  *)
(* a loop that never ends in the code is a cycle of states in the model.   *)
(*                                                                         *)
(* Indices: offsets into the target, child indexes and tree-path elements  *)
(* are 0-based as in the code.  A position in backtrack_table is kept      *)
(* 1-based (the TLA+ sequence index), 0 standing for Option::None.         *)
(* The write-only fields matches_substring_start / matches_substring_end   *)
(* are never read by the code and are left out.                            *)
(***************************************************************************)
EXTENDS Integers, Sequences, FiniteSets, TLC

VARIABLES
    tree,                   \* the parsed pattern (root of the expression tree)
    target,                 \* Matcher::target
    pos,                    \* Matcher::pos
    next_match_phase,       \* Matcher::next_match_phase
    pattern,                \* Matcher::pattern: the node being processed, as its path of child indexes from the root
    pattern_index_sequence, \* Matcher::pattern_index_sequence
    backtrack_table,        \* Matcher::backtrack_table
    match_bound,            \* Matcher::match_bound
    match_cache,            \* Matcher::match_cache
    stack,                  \* call stack of the running search (frames of next / group / alternation / concatenation)
    ret,                    \* result of the callee that has just returned, NoRet when none is pending
    op,                     \* public operation in progress, "idle" between calls
    out,                    \* name and result of the public operation called last, once it has returned
    hist,                   \* results of the direct next() calls since construction / seek / reset
    histTag,                \* how the current run of next() calls started: "new", "reset", "seek", "other"
    firstFresh,             \* first result of next() on a freshly constructed Matcher for (tree, target), once observed
    lastCompute,            \* the compute_match call that returned last in the running search
    text,                   \* locals of the running splitn / subn
    noted,                  \* what is remembered of earlier calls, to compare later results with
    scanner                 \* the Scanner (tokenizer) of src/src/scanner/mod.rs, and what it produced

vars == <<tree, target, pos, next_match_phase, pattern, pattern_index_sequence,
          backtrack_table, match_bound, match_cache, stack, ret, op, out,
          hist, histTag, firstFresh, lastCompute, text, noted, scanner>>

----------------------------------------------------------------------------
(* Bounds of the model *)

MaxLen == 3         \* longest target drawn in Init
MaxCache == 2       \* seek past the end of the target is called only while the cache is shorter
MaxRep == 3         \* most repetitions of a word in a repeated target
MaxHist == 5        \* longest recorded run of next() results
MaxCount == 2       \* largest count passed to splitn / subn, besides that of split / sub
MaxTextLen == 2     \* longest target splitn / subn run on
MaxPulled == 5      \* most matches one splitn / subn call is followed through
MaxSource == 3      \* longest pattern string given to the Scanner
MaxLiteral == 2     \* longest string given to escape
MaxAssignLen == 1   \* longest target given to assign_match_target

Alphabet == {"a", "b"}

----------------------------------------------------------------------------
(* Values *)

\* Option::<Match>::None; a Match is a record [start, end]
None == [start |-> -1, end |-> -1]
\* no result pending
NoRet == [start |-> -2, end |-> -2]
\* a Rust panic (index out of bounds, unwrap of None) surfaced by the search
Panic == [start |-> -3, end |-> -3]

Match(s, e) == [start |-> s, end |-> e]
IsSome(m) == m.start >= 0
\* Range::is_empty
IsEmptyRange(m) == m.start >= m.end

Min(x, y) == IF x < y THEN x ELSE y
\* usize::saturating_sub(1)
SatDec(x) == IF x > 0 THEN x - 1 ELSE 0

Front(s) == SubSeq(s, 1, Len(s) - 1)

----------------------------------------------------------------------------
(* Expression tree: tag, Option<char> value (<<>> is the dot), quantifier, children *)

EmptyExpression == [type |-> "EmptyExpression", value |-> <<>>, quantifier |-> "None", children |-> <<>>]
CharacterExpression(v, q) == [type |-> "CharacterExpression", value |-> v, quantifier |-> q, children |-> <<>>]
Group(e, q) == [type |-> "Group", value |-> <<>>, quantifier |-> q, children |-> <<e>>]
Alternation(cs) == [type |-> "Alternation", value |-> <<>>, quantifier |-> "None", children |-> cs]
Concatenation(cs) == [type |-> "Concatenation", value |-> <<>>, quantifier |-> "None", children |-> cs]

Lit(c) == CharacterExpression(<<c>>, "None")
LitQ(c, q) == CharacterExpression(<<c>>, q)
Dot(q) == CharacterExpression(<<>>, q)

\* the node reached from node n by the path p of 0-based child indexes
RECURSIVE NodeAt(_, _)
NodeAt(n, p) == IF p = <<>> THEN n ELSE NodeAt(n.children[p[1] + 1], Tail(p))

\* Matcher::supports_backtracking
RECURSIVE supports_backtracking(_)
supports_backtracking(expr) ==
    CASE expr.type = "EmptyExpression" -> FALSE
      [] expr.type = "CharacterExpression" -> expr.quantifier # "None"
      [] expr.type = "Group" ->
            expr.quantifier # "None" \/ supports_backtracking(expr.children[1])
      [] OTHER -> \E i \in 1..Len(expr.children) : supports_backtracking(expr.children[i])

----------------------------------------------------------------------------
(* The Matcher as one record, so that the steps of a search compose *)

Self ==
    [pos |-> pos, phase |-> next_match_phase, pattern |-> pattern,
     path |-> pattern_index_sequence, table |-> backtrack_table,
     bound |-> match_bound, cache |-> match_cache, stack |-> stack, ret |-> ret,
     first |-> firstFresh, last |-> lastCompute]

Commit(m) ==
    /\ pos' = m.pos
    /\ next_match_phase' = m.phase
    /\ pattern' = m.pattern
    /\ pattern_index_sequence' = m.path
    /\ backtrack_table' = m.table
    /\ match_bound' = m.bound
    /\ match_cache' = m.cache
    /\ stack' = m.stack
    /\ ret' = m.ret
    /\ firstFresh' = m.first
    /\ lastCompute' = m.last

\* Matcher::current
current(m) == Min(m.pos, Len(target))
\* Matcher::has_next
has_next(m) == m.pos < Len(target)

\* no compute_match has returned yet in this search
NoCompute == [pattern |-> <<>>, from |-> -1, result |-> NoRet, to |-> -1, tried |-> <<>>]

\* the state Matcher::new builds for a target of length n
NewMatcher(n) ==
    [pos |-> 0, phase |-> "Normal", pattern |-> <<>>, path |-> <<>>, table |-> <<>>,
     bound |-> n + 1, cache |-> <<>>, stack |-> <<>>, ret |-> NoRet]

IsFresh(m) ==
    /\ m.pos = 0 /\ m.phase = "Normal" /\ m.pattern = <<>> /\ m.path = <<>>
    /\ m.table = <<>> /\ m.bound = Len(target) + 1 /\ m.cache = <<>>

----------------------------------------------------------------------------
(* backtrack_table: records sorted by index_sequence *)

\* Vec<usize>::cmp, lexicographic
RECURSIVE SeqLess(_, _)
SeqLess(s, t) ==
    IF t = <<>> THEN FALSE
    ELSE IF s = <<>> THEN TRUE
    ELSE IF s[1] # t[1] THEN s[1] < t[1]
    ELSE SeqLess(Tail(s), Tail(t))

\* binary_search_by(|e| e.index_sequence.cmp(path)): the position of the record of
\* path (Ok), 0 when there is none (Err)
TableFind(table, path) ==
    IF \E i \in 1..Len(table) : table[i].index_sequence = path
    THEN CHOOSE i \in 1..Len(table) : table[i].index_sequence = path
    ELSE 0

\* an insertion at the end of the table, whatever the path
TableInsertionIndexLast(table, path) == Len(table) + 1

\* the insertion position binary_search_by gives back in Err
TableInsertionIndex(table, path) ==
    Cardinality({i \in 1..Len(table) : SeqLess(table[i].index_sequence, path)}) + 1

InsertAt(s, i, x) == SubSeq(s, 1, i - 1) \o <<x>> \o SubSeq(s, i, Len(s))

\* a match bound that ignores the backtrack record of the node
EntryBoundKept(m) == m.bound

\* the match bound a character or group expression sets on entry
EntryBound(m) ==
    LET i == TableFind(m.table, m.path)
    IN  IF i # 0 THEN SatDec(m.table[i].last_match_end) ELSE m.bound

\* compute_match, after the node's own match function returned computed_match:
\* the backtrack record of the node is updated or inserted
RecordMatch(m, computed_match) ==
    LET node == NodeAt(tree, m.pattern)
        has_parent == m.pattern # <<>>
        expression_not_grouped ==
            IF has_parent THEN NodeAt(tree, Front(m.pattern)).type # "Group" ELSE TRUE
        entry == [index_sequence |-> m.path,
                  last_match_start |-> computed_match.start,
                  last_match_end |-> computed_match.end,
                  backtracked_to_last_match_start |->
                      computed_match.start = computed_match.end]
        i == TableFind(m.table, m.path)
    IN  IF IsSome(computed_match) /\ supports_backtracking(node)
           /\ has_parent /\ expression_not_grouped
        THEN IF i # 0 THEN [m.table EXCEPT ![i] = entry]
             ELSE InsertAt(m.table, TableInsertionIndex(m.table, m.path), entry)
        ELSE m.table

----------------------------------------------------------------------------
(* Leaves *)

\* Matcher::empty_expression_match
empty_expression_match(m) == Match(current(m), current(m))

\* a scan that stops after one character
ScanOne(p, value, bound) ==
    IF p < Len(target) /\ target[p + 1] = value /\ p < bound THEN p + 1 ELSE p

\* the while loop of x* / x+: advance over value up to the bound
RECURSIVE ScanRun(_, _, _)
ScanRun(p, value, bound) ==
    IF p < Len(target) /\ target[p + 1] = value /\ p < bound
    THEN ScanRun(p + 1, value, bound)
    ELSE p

\* Matcher::character_expression_match: the match and the cursor it leaves
\* (match_bound is restored before returning)
character_expression_match(m, value, quantifier) ==
    LET bound == EntryBound(m)
    IN  IF quantifier \in {"None", "ZeroOrOne"}
        THEN IF has_next(m) /\ (value = <<>> \/ target[m.pos + 1] = value[1])
             THEN [result |-> Match(current(m), Min(m.pos + 1, Len(target))), pos |-> m.pos + 1]
             ELSE IF quantifier = "None"
             THEN [result |-> None, pos |-> m.pos]
             ELSE [result |-> empty_expression_match(m), pos |-> m.pos]
        ELSE LET start == current(m)
                 p == IF value = <<>> THEN SatDec(bound) ELSE ScanRun(m.pos, value[1], bound)
                 end == Min(p, Len(target))
             IN  IF start < end
                 THEN [result |-> Match(start, end), pos |-> p]
                 ELSE IF quantifier = "ZeroOrMore"
                 THEN [result |-> Match(end, end), pos |-> p]
                 ELSE [result |-> None, pos |-> p]

----------------------------------------------------------------------------
(* Frames of the call stack.  Every frame carries all the fields; a kind    *)
(* uses the locals of its own function.  enter, tried, from_fresh,         *)
(* rewinds / looped and rewound record what happened and are read by no     *)
(* step: rewound is the last match [s, e) of the child a concatenation has  *)
(* just rewound to, from the rewind until that child returns.               *)

Frame(kind, m) ==
    [kind |-> kind,
     quantifier |-> NodeAt(tree, m.pattern).quantifier,
     old_match_bound |-> m.bound,
     old_pattern |-> m.pattern,
     old_position |-> current(m),
     start |-> current(m),
     end |-> current(m),
     matched_empty_string |-> FALSE,
     children |-> [i \in 1..Len(NodeAt(tree, m.pattern).children) |-> 0],
     match_region_end |-> current(m),
     child_index |-> 0,
     prev_idx |-> -1,
     prev_entry |-> 0,
     enter |-> m.pos,
     tried |-> <<>>,
     from_fresh |-> IsFresh(m),
     rewinds |-> {},
     looped |-> FALSE,
     rewound |-> NoRet]

Top(m) == m.stack[Len(m.stack)]
Pop(m) == SubSeq(m.stack, 1, Len(m.stack) - 1)
SetTop(m, f) == [m.stack EXCEPT ![Len(m.stack)] = f]

\* a bubble_up that leaves the tree-path as it is
bubble_up_stay(path) == path

\* Matcher::dive / bubble_up / appoint_next_child on the tree-path
dive(path) == Append(path, 0)
bubble_up(path) == Front(path)
appoint_next_child(path) == [path EXCEPT ![Len(path)] = @ + 1]

\* compute_match on the node m.pattern: a leaf is matched at once and its
\* result left in ret; a composite node runs the entry code of its match
\* function and waits, as a new frame, for the result of its first child
Call(m) ==
    LET node == NodeAt(tree, m.pattern)
    IN  CASE node.type = "EmptyExpression" ->
                LET r == empty_expression_match(m)
                IN  [m EXCEPT !.table = RecordMatch(m, r), !.ret = r,
                              !.last = [pattern |-> m.pattern, from |-> m.pos,
                                        result |-> r, to |-> m.pos, tried |-> <<>>]]
          [] node.type = "CharacterExpression" ->
                LET r == character_expression_match(m, node.value, node.quantifier)
                    m1 == [m EXCEPT !.pos = r.pos]
                IN  [m1 EXCEPT !.table = RecordMatch(m1, r.result), !.ret = r.result,
                               !.last = [pattern |-> m.pattern, from |-> m.pos,
                                         result |-> r.result, to |-> r.pos, tried |-> <<>>]]
          [] node.type = "Group" ->
                [m EXCEPT !.bound = EntryBound(m),
                          !.pattern = Append(m.pattern, 0),
                          !.path = dive(m.path),
                          !.stack = Append(m.stack, Frame("group", m)),
                          !.ret = NoRet]
          [] node.type = "Alternation" ->
                [m EXCEPT !.path = dive(m.path),
                          !.stack = Append(m.stack, Frame("alternation", m)),
                          !.ret = NoRet]
          [] OTHER ->
                [m EXCEPT !.path = dive(m.path),
                          !.stack = Append(m.stack, Frame("concatenation", m)),
                          !.ret = NoRet]

\* the match function of the top frame returns result with the cursor at p:
\* it restores the node and the tree-path, and compute_match records the match
Finish(m, result, p) ==
    LET f == Top(m)
        m1 == [m EXCEPT !.stack = Pop(m),
                        !.pattern = f.old_pattern,
                        !.path = bubble_up(m.path),
                        !.bound = IF f.kind = "group" THEN f.old_match_bound ELSE m.bound,
                        !.pos = p]
    IN  [m1 EXCEPT !.table = RecordMatch(m1, result), !.ret = result,
                   !.last = [pattern |-> f.old_pattern, from |-> f.enter,
                             result |-> result, to |-> p, tried |-> f.tried]]

----------------------------------------------------------------------------
(* Matcher::group_match, after compute_match on the grouped expression returned *)

\* the result of (E)* / (E)+ once the repetition loop has ended with the cursor at p
GroupLoopResult(m, f, p) ==
    IF f.start = f.end /\ ~f.matched_empty_string
    THEN IF f.quantifier = "OneOrMore" THEN None
         ELSE Match(Min(p, Len(target)), Min(p, Len(target)))
    ELSE Match(f.start, f.end)

\* a group that leaves its repetition loop after the first match of its child
group_match_once(m) ==
    LET f == Top(m)
        r == m.ret
    IN  CASE f.quantifier = "None" -> Finish(m, r, m.pos)
          [] f.quantifier = "ZeroOrOne" ->
                IF IsSome(r)
                THEN IF r.end >= m.bound THEN Finish(m, None, m.pos)
                     ELSE Finish(m, r, m.pos)
                ELSE Finish(m, empty_expression_match(m), m.pos)
          [] OTHER ->
                IF ~IsSome(r) THEN Finish(m, GroupLoopResult(m, f, m.pos), m.pos)
                ELSE Finish(m, r, m.pos)

group_match(m) ==
    LET f == Top(m)
        r == m.ret
    IN  CASE f.quantifier = "None" -> Finish(m, r, m.pos)
          [] f.quantifier = "ZeroOrOne" ->
                IF IsSome(r)
                THEN IF r.end >= m.bound THEN Finish(m, None, m.pos)
                     ELSE Finish(m, r, m.pos)
                ELSE Finish(m, empty_expression_match(m), m.pos)
          [] OTHER ->
                IF ~IsSome(r) THEN Finish(m, GroupLoopResult(m, f, m.pos), m.pos)
                ELSE IF m.pos > m.bound
                THEN Finish(m, GroupLoopResult(m, f, f.end), f.end)
                ELSE IF IsEmptyRange(r) /\ f.matched_empty_string
                THEN Finish(m, GroupLoopResult(m, f, m.pos), m.pos)
                ELSE [m EXCEPT !.stack = SetTop(m, [f EXCEPT !.end = r.end,
                                                             !.matched_empty_string = IsEmptyRange(r)]),
                               !.ret = NoRet]

----------------------------------------------------------------------------
(* Matcher::alternation_match *)

\* the loop body up to compute_match: the child child_index becomes the current node
alternation_call(m) ==
    LET f == Top(m)
        m1 == [m EXCEPT !.pattern = Append(f.old_pattern, f.child_index),
                        !.stack = SetTop(m, [f EXCEPT !.tried =
                                     Append(@, [child |-> f.child_index, cursor |-> current(m),
                                                 result |-> NoRet])])]
    IN  Call(m1)

\* an alternation that goes on to its later children after a child matched, and
\* returns the match of the last child that matched
alternation_match_last(m) ==
    LET f == Top(m)
        r == m.ret
        g == [f EXCEPT !.tried = [@ EXCEPT ![Len(@)].result = r],
                       !.start = IF IsSome(r) THEN r.start ELSE @,
                       !.end = IF IsSome(r) THEN r.end ELSE @,
                       !.matched_empty_string = @ \/ IsSome(r),
                       !.match_region_end = IF IsSome(r) THEN m.pos ELSE @]
        n == Len(NodeAt(tree, f.old_pattern).children)
        m2 == [m EXCEPT !.pos = f.old_position,
                        !.path = appoint_next_child(m.path),
                        !.stack = SetTop(m, [g EXCEPT !.child_index = @ + 1])]
    IN  IF f.child_index + 1 < n THEN [m2 EXCEPT !.ret = NoRet]
        ELSE IF g.matched_empty_string
        THEN Finish(m2, Match(g.start, g.end), g.match_region_end)
        ELSE Finish(m2, None, f.old_position)

\* the loop body after compute_match returned
alternation_match(m) ==
    LET f == Top(m)
        r == m.ret
        g == [f EXCEPT !.tried = [@ EXCEPT ![Len(@)].result = r]]
        n == Len(NodeAt(tree, f.old_pattern).children)
        m1 == [m EXCEPT !.stack = SetTop(m, g)]
    IN  IF IsSome(r) THEN Finish(m1, r, m.pos)
        ELSE LET m2 == [m1 EXCEPT !.pos = f.old_position,
                                  !.path = appoint_next_child(m.path),
                                  !.stack = SetTop(m, [g EXCEPT !.child_index = @ + 1])]
             IN  IF f.child_index + 1 < n THEN [m2 EXCEPT !.ret = NoRet]
                 ELSE Finish(m2, None, f.old_position)

----------------------------------------------------------------------------
(* Matcher::concatenation_match *)

\* the nearest preceding sibling that has a backtrack record and has not
\* backtracked to its last match start: its child index, -1 when there is none
ConcatPrev(m, f) ==
    LET ok == {idx \in 0..(f.child_index - 1) :
                 /\ f.children[idx + 1] # 0
                 /\ ~m.table[f.children[idx + 1]].backtracked_to_last_match_start}
    IN  IF ok = {} THEN -1 ELSE CHOOSE idx \in ok : \A j \in ok : j <= idx

\* the head of the while loop up to compute_match: prev is computed, the
\* record of the child is reset when it backtracked to its start, the child
\* becomes the current node
concatenation_call(m) ==
    LET f == Top(m)
        table_info_pos == f.children[f.child_index + 1]
        prev == ConcatPrev(m, f)
        table1 ==
            IF table_info_pos # 0 /\ prev # -1
               /\ m.table[table_info_pos].backtracked_to_last_match_start
            THEN [m.table EXCEPT ![table_info_pos] =
                     [@ EXCEPT !.last_match_start = current(m),
                               !.last_match_end = Len(target),
                               !.backtracked_to_last_match_start = FALSE]]
            ELSE m.table
        g == [f EXCEPT !.prev_idx = prev,
                       !.prev_entry = IF prev = -1 THEN 0 ELSE f.children[prev + 1]]
    IN  Call([m EXCEPT !.pattern = Append(f.old_pattern, f.child_index),
                       !.table = table1,
                       !.stack = SetTop(m, g)])

\* the body of the while loop after compute_match returned
concatenation_match(m) ==
    LET f == Top(m)
        r == m.ret
        n == Len(f.children)
    IN  IF IsSome(r)
        THEN LET found == TableFind(m.table, m.path)
                 store == f.children[f.child_index + 1] = 0
                          /\ supports_backtracking(NodeAt(tree, m.pattern))
                 g == [f EXCEPT !.match_region_end = r.end,
                                !.rewound = NoRet,
                                !.children = IF store
                                             THEN [@ EXCEPT ![f.child_index + 1] = found]
                                             ELSE @,
                                !.child_index = @ + 1]
                 m1 == [m EXCEPT !.stack = SetTop(m, g),
                                 !.path = appoint_next_child(m.path)]
             IN  IF store /\ found = 0 THEN [m EXCEPT !.ret = Panic]
                 ELSE IF f.child_index + 1 < n THEN [m1 EXCEPT !.ret = NoRet]
                 ELSE Finish(m1, Match(f.old_position, r.end), m.pos)
        ELSE IF f.prev_idx # -1
        THEN LET conf == <<f.prev_idx, m.table, f.children>>
                 rec == TableFind(m.table, [m.path EXCEPT ![Len(m.path)] = f.prev_idx])
                 g == [f EXCEPT !.child_index = f.prev_idx,
                                !.looped = @ \/ conf \in f.rewinds,
                                !.rewinds = @ \cup {conf},
                                !.rewound = IF rec = 0 THEN NoRet
                                            ELSE Match(m.table[rec].last_match_start,
                                                       m.table[rec].last_match_end)]
             IN  [m EXCEPT !.pos = m.table[f.prev_entry].last_match_start,
                           !.path = [@ EXCEPT ![Len(@)] = f.prev_idx],
                           !.stack = SetTop(m, g),
                           !.ret = NoRet]
        ELSE Finish(m, None, f.old_position)

----------------------------------------------------------------------------
(* Iterator::next *)

\* the first cached match that starts at or after the cursor (its position, 0 when none)
CacheFind(m) ==
    IF \E i \in 1..Len(m.cache) : m.pos <= m.cache[i].start
    THEN CHOOSE i \in 1..Len(m.cache) :
            /\ m.pos <= m.cache[i].start
            /\ \A j \in 1..(i - 1) : ~(m.pos <= m.cache[j].start)
    ELSE 0

\* match_cache.partition_point(|m| match_attempt.start > m.start), as an insertion position
CachePartitionPoint(cache, match_attempt) ==
    IF \E i \in 1..Len(cache) : ~(match_attempt.start > cache[i].start)
    THEN CHOOSE i \in 1..Len(cache) :
            /\ ~(match_attempt.start > cache[i].start)
            /\ \A j \in 1..(i - 1) : match_attempt.start > cache[j].start
    ELSE Len(cache) + 1

\* next, from its entry to the first compute_match: the early returns leave the
\* result in ret with an empty stack, otherwise the root is tracked and the
\* offset loop starts
next_begin(m) ==
    IF m.phase = "Finished" THEN [m EXCEPT !.ret = None]
    ELSE LET i == CacheFind(m)
         IN  IF i # 0
             THEN LET cached_range == m.cache[i]
                      accept_cache == IF m.phase = "Normal" THEN TRUE
                                      ELSE IsEmptyRange(cached_range)
                  IN  IF accept_cache
                      THEN [m EXCEPT !.pos = cached_range.end,
                                     !.phase = IF cached_range.end < Len(target) THEN "Normal"
                                               ELSE IF m.pos < Len(target) THEN "TrailingEmptyString"
                                               ELSE "Finished",
                                     !.ret = cached_range]
                      ELSE [m EXCEPT !.phase = "Finished", !.ret = None]
             ELSE [m EXCEPT !.path = dive(m.path),
                            !.stack = Append(m.stack, Frame("next", m)),
                            !.ret = NoRet,
                            !.last = NoCompute]

\* the phase next leaves, from the cursor it ends with
PhaseAfter(m, p) ==
    IF p < Len(target) THEN "Normal"
    ELSE IF m.phase = "Normal" THEN "TrailingEmptyString"
    ELSE "Finished"

\* an offset loop that gives up after the first offset at which the root fails
next_loop_once(m) ==
    LET f == Top(m)
        match_attempt == m.ret
        leave(p, cache) ==
            [m EXCEPT !.pos = p,
                      !.table = <<>>,
                      !.cache = cache,
                      !.phase = PhaseAfter(m, p),
                      !.path = bubble_up(m.path),
                      !.stack = Pop(m),
                      !.first = IF f.from_fresh /\ m.first = NoRet THEN match_attempt ELSE @]
    IN  IF ~IsSome(match_attempt)
        THEN leave(m.pos, m.cache)
        ELSE leave(IF IsEmptyRange(match_attempt) THEN m.pos + 1 ELSE m.pos,
                   InsertAt(m.cache, CachePartitionPoint(m.cache, match_attempt), match_attempt))

\* the body of the offset loop after compute_match on the root returned, and
\* the end of next once the loop is left
next_loop(m) ==
    LET f == Top(m)
        match_attempt == m.ret
        leave(p, cache) ==
            [m EXCEPT !.pos = p,
                      !.table = <<>>,
                      !.cache = cache,
                      !.phase = PhaseAfter(m, p),
                      !.path = bubble_up(m.path),
                      !.stack = Pop(m),
                      !.first = IF f.from_fresh /\ m.first = NoRet THEN match_attempt ELSE @]
    IN  IF ~IsSome(match_attempt)
        THEN IF has_next(m)
             THEN [m EXCEPT !.pos = m.pos + 1, !.table = <<>>, !.ret = NoRet]
             ELSE leave(m.pos, m.cache)
        ELSE leave(IF IsEmptyRange(match_attempt) THEN m.pos + 1 ELSE m.pos,
                   InsertAt(m.cache, CachePartitionPoint(m.cache, match_attempt), match_attempt))

\* a seek that leaves the iteration phase as it is
seek_same_phase(m, position) ==
    [m EXCEPT !.pos = position, !.path = <<>>, !.table = <<>>]

\* Matcher::seek
seek(m, position) ==
    [m EXCEPT !.pos = position, !.phase = "Normal", !.path = <<>>, !.table = <<>>]

\* Matcher::reset
reset(m) == seek(m, 0)

----------------------------------------------------------------------------
(* One step of the running search *)

StepMachine(m) ==
    LET f == Top(m)
    IN  IF m.ret = Panic THEN [m EXCEPT !.stack = <<>>]
        ELSE IF m.ret = NoRet
        THEN CASE f.kind = "next" -> Call(m)
               [] f.kind = "group" -> Call(m)
               [] f.kind = "alternation" -> alternation_call(m)
               [] OTHER -> concatenation_call(m)
        ELSE CASE f.kind = "next" -> next_loop(m)
               [] f.kind = "group" -> group_match(m)
               [] f.kind = "alternation" -> alternation_match(m)
               [] OTHER -> concatenation_match(m)

----------------------------------------------------------------------------
(* The public operations.  A call of next made by an operation o either     *)
(* returns at once or leaves a running search; Continue is what o does with  *)
(* the result once next has returned.                                        *)

\* what a completed operation returned: match is the result of its last call of
\* next, calls the number of calls of next it made, fresh tells that its last
\* search started in the state Matcher::new builds; arg is the numeric argument
\* of the call (-1 when it has none), text the strings splitn / subn returned
\* and matches the matches splitn / subn pulled from the sequence
Result(name, match, value, calls) ==
    [op |-> name, match |-> match, value |-> value, calls |-> calls, fresh |-> FALSE,
     arg |-> -1, text |-> <<>>, matches |-> <<>>]

\* no result yet: the operation called last has not returned
Running == Result("running", NoRet, FALSE, 0)

Idle(m) == [m EXCEPT !.ret = NoRet, !.last = NoCompute]

\* no splitn / subn is running
NoText == [splits |-> <<>>, split_start |-> 0, count |-> 0, result |-> <<>>,
           n |-> 0, matches |-> <<>>, fresh |-> FALSE]
\* nothing observed yet: after_assign is the first result of next() after the
\* last assign_match_target, cleared the number of cached matches the last
\* assignment dropped, fresh_sub the string sub(Repl) returned on a freshly
\* constructed Matcher and split the segments split() returned, once seen
NothingNoted ==
    [after_assign |-> NoRet, cleared |-> 0,
     fresh_sub |-> [seen |-> FALSE, value |-> <<>>],
     split |-> [seen |-> FALSE, value |-> <<>>]]
\* no Scanner is in use.  Besides the fields of struct Scanner: tokens are the
\* tokens next has returned, status tells whether the iterator is in use, has
\* returned None ("done") or panicked; escaped tells that source is escape(literal)
NoScanner == [source |-> <<>>, current |-> 0, found_empty_string |-> FALSE,
              groupings |-> <<>>, tokens |-> <<>>, status |-> "unused",
              escaped |-> FALSE, literal |-> <<>>]

\* a public operation resumes after its call of next returned m.ret.  Each of
\* the following gives the Matcher it leaves, the operation then in progress
\* ("idle" when the operation is complete) and the result it returned.

\* Iterator::next called directly: its result is the caller's
next_return(m) ==
    [m |-> Idle(m), op |-> "idle", out |-> Result("next", m.ret, IsSome(m.ret), 1)]

\* Matcher::is_matching after its second call of next
is_matching_retry(m) ==
    [m |-> Idle(m), op |-> "idle", out |-> Result("is_matching", m.ret, IsSome(m.ret), 2)]

\* an is_matching that answers from its first call of next alone
is_matching_once(m) ==
    [m |-> Idle(m), op |-> "idle", out |-> Result("is_matching", m.ret, IsSome(m.ret), 1)]

\* Matcher::is_matching after its first call of next: on None it resets and calls next again
is_matching(m) ==
    IF IsSome(m.ret)
    THEN [m |-> Idle(m), op |-> "idle", out |-> Result("is_matching", m.ret, TRUE, 1)]
    ELSE LET m2 == next_begin(reset(Idle(m)))
         IN  IF m2.stack = <<>> THEN is_matching_retry(m2)
             ELSE [m |-> m2, op |-> "is_matching_retry", out |-> Running]

\* Matcher::fullmatch after its call of next
fullmatch(m) ==
    [m |-> Idle(m), op |-> "idle",
     out |-> Result("fullmatch", m.ret, m.ret.start = 0 /\ m.ret.end = Len(target), 1)]

Continue(o, m) ==
    CASE m.ret = Panic ->
            [m |-> m, op |-> "panicked", out |-> Result("panic", Panic, FALSE, 0)]
      [] o = "next" -> next_return(m)
      [] o = "is_matching" -> is_matching(m)
      [] o = "is_matching_retry" -> is_matching_retry(m)
      [] o \in {"splitn", "subn"} -> [m |-> m, op |-> o, out |-> Running]
      [] OTHER -> fullmatch(m)

\* the state after a step of operation o that left the Matcher as m; h is the
\* run of next() results the operation extends
Advance(o, m, h, tag) ==
    IF m.stack # <<>>
    THEN /\ Commit(m)
         /\ op' = o
         /\ hist' = h
         /\ histTag' = tag
         /\ out' = Running
    ELSE LET c == Continue(o, m)
         IN  /\ Commit(c.m)
             /\ op' = c.op
             /\ out' = IF c.out = Running THEN Running
                        ELSE [c.out EXCEPT !.fresh = (stack # <<>> /\ stack[1].from_fresh)]
             /\ hist' = IF c.out.op = "next" /\ tag \in {"new", "reset", "assigned"}
                        THEN Append(h, c.out.match) ELSE h
             /\ histTag' = tag

\* the first result of next() after assign_match_target is remembered
NoteNext(n, h, tag) ==
    IF tag = "assigned" /\ Len(h) = 1 /\ n.after_assign = NoRet
    THEN [n EXCEPT !.after_assign = h[1]]
    ELSE n

\* a search that starts where the last one ended may cache one more match every
\* time (past the end of the target, or under a match_bound left from a shorter
\* target): such searches are followed while the cache is short
CacheBounded == Len(match_cache) <= Len(target) + MaxCache

\* Matcher::new(pattern, target) once more, for the same pattern and target
Construct ==
    /\ op = "idle"
    /\ Commit(NewMatcher(Len(target)) @@ [first |-> firstFresh, last |-> NoCompute])
    /\ op' = "idle"
    /\ out' = Result("new", NoRet, FALSE, 0)
    /\ hist' = <<>>
    /\ histTag' = "new"
    /\ UNCHANGED <<tree, target, text, noted, scanner>>

\* Iterator::next is called
CallNext ==
    /\ op = "idle"
    /\ Len(hist) < MaxHist
    /\ CacheBounded
    /\ Advance("next", next_begin(Self), hist, histTag)
    /\ noted' = NoteNext(noted, hist', histTag')
    /\ UNCHANGED <<tree, target, text, scanner>>

\* Matcher::seek(position) is called (seek(0) is Reset).  Every search made
\* with the cursor past the end caches one more zero-width match, and so does
\* every search under a match_bound left from a shorter target, so seek is
\* bounded by the length of the cache
Seek ==
    /\ op = "idle"
    /\ \E position \in 1..(Len(target) + 1) :
          /\ (position <= Len(target) \/ Len(match_cache) < MaxCache)
          /\ CacheBounded
          /\ Commit(seek(Self, position))
          /\ out' = [Result("seek", NoRet, FALSE, 0) EXCEPT !.arg = position]
    /\ hist' = <<>>
    /\ histTag' = "seek"
    /\ UNCHANGED <<tree, target, op, text, noted, scanner>>

\* Matcher::reset is called
Reset ==
    /\ op = "idle"
    /\ Commit(reset(Self))
    /\ out' = [Result("reset", NoRet, FALSE, 0) EXCEPT !.arg = 0]
    /\ hist' = <<>>
    /\ histTag' = "reset"
    /\ UNCHANGED <<tree, target, op, text, noted, scanner>>

\* Matcher::is_matching is called
IsMatching ==
    /\ op = "idle"
    /\ CacheBounded
    /\ Advance("is_matching", next_begin(Self), <<>>, "other")
    /\ UNCHANGED <<tree, target, text, noted, scanner>>

\* Matcher::fullmatch is called
Fullmatch ==
    /\ op = "idle"
    /\ Advance("fullmatch", next_begin(reset(Self)), <<>>, "other")
    /\ UNCHANGED <<tree, target, text, noted, scanner>>

\* the running search makes one step
Step ==
    /\ op \notin {"idle", "panicked"}
    /\ stack # <<>>
    /\ Advance(op, StepMachine(Self), hist, histTag)
    /\ noted' = NoteNext(noted, hist', histTag')
    /\ UNCHANGED <<tree, target, text, scanner>>

----------------------------------------------------------------------------
(* Matcher::splitn / split and Matcher::subn / sub.  Their for loops pull    *)
(* the match sequence: a call of next that has returned leaves its result   *)
(* in ret, and Iterate runs the loop body on it and calls next again.       *)

\* the replacement string passed to subn / sub
Repl == <<"x">>

\* &target[a..b], and whether the slice is in range (it panics otherwise)
Slice(a, b) == SubSeq(target, a + 1, b)
SliceOk(a, b) == a <= b /\ b <= Len(target)

\* the counts splitn / subn are called with; split and sub pass len(target) + 1
Counts == (0..MaxCount) \cup {Len(target) + 1}

\* the body of the for loop of splitn on the match m, and the code after the
\* loop when next returned None: the locals it leaves, whether the function
\* returns, whether a slice panicked
splitn_loop(t, m) ==
    IF ~IsSome(m)
    THEN [text |-> [t EXCEPT !.splits = Append(@, Slice(t.split_start, Len(target)))],
          done |-> TRUE, panic |-> ~SliceOk(t.split_start, Len(target))]
    ELSE IF Len(t.splits) < t.count
    THEN [text |-> [t EXCEPT !.splits = Append(@, Slice(t.split_start, m.start)),
                             !.split_start = m.end,
                             !.matches = Append(@, m)],
          done |-> FALSE, panic |-> ~SliceOk(t.split_start, m.start)]
    ELSE [text |-> [t EXCEPT !.matches = Append(@, m)], done |-> FALSE, panic |-> FALSE]

\* the same for subn: the loop is left by break when subs_count is 0
subn_loop(t, m) ==
    IF IsSome(m) /\ t.count > 0
    THEN [text |-> [t EXCEPT !.result = @ \o Slice(t.split_start, m.start) \o Repl,
                             !.split_start = m.end,
                             !.count = @ - 1,
                             !.matches = Append(@, m)],
          done |-> FALSE, panic |-> ~SliceOk(t.split_start, m.start)]
    ELSE [text |-> [t EXCEPT !.result = @ \o Slice(t.split_start, Len(target)),
                             !.matches = IF IsSome(m) THEN Append(@, m) ELSE @],
          done |-> TRUE, panic |-> ~SliceOk(t.split_start, Len(target))]

\* what splitn / subn returned, from the locals they end with
TextResult(o, t) ==
    [Result(o, NoRet, FALSE, Len(t.matches)) EXCEPT
        !.arg = t.n,
        !.text = IF o = "splitn" THEN t.splits ELSE t.result,
        !.matches = t.matches,
        !.fresh = t.fresh]

\* the first result of split(), and of sub(Repl) on a fresh Matcher, are remembered
NoteText(n, o, t) ==
    IF t.n # Len(target) + 1 THEN n
    ELSE IF o = "splitn"
    THEN (IF n.split.seen THEN n ELSE [n EXCEPT !.split = [seen |-> TRUE, value |-> t.splits]])
    ELSE IF t.fresh /\ ~n.fresh_sub.seen
    THEN [n EXCEPT !.fresh_sub = [seen |-> TRUE, value |-> t.result]]
    ELSE n

\* Matcher::splitn(splits_count) is called; split() is splitn(len(target) + 1)
Splitn ==
    /\ op = "idle"
    /\ \E splits_count \in Counts :
          IF splits_count = 0
          THEN /\ out' = [Result("splitn", NoRet, FALSE, 0) EXCEPT !.arg = 0]
               /\ noted' = NoteText(noted, "splitn", NoText)
               /\ UNCHANGED <<pos, next_match_phase, pattern, pattern_index_sequence,
                              backtrack_table, match_bound, match_cache, stack, ret, op,
                              hist, histTag, firstFresh, lastCompute, text>>
          ELSE /\ Advance("splitn", next_begin(reset(Self)), <<>>, "other")
               /\ text' = [NoText EXCEPT !.count = splits_count, !.n = splits_count,
                                         !.fresh = IsFresh(reset(Self))]
               /\ UNCHANGED noted
    /\ UNCHANGED <<tree, target, scanner>>

\* Matcher::subn(Repl, subs_count) is called; sub(Repl) is subn(Repl, len(target) + 1)
Subn ==
    /\ op = "idle"
    /\ CacheBounded
    /\ \E subs_count \in Counts :
          IF subs_count = 0
          THEN /\ out' = [Result("subn", NoRet, FALSE, 0) EXCEPT !.arg = 0, !.text = target]
               /\ UNCHANGED <<pos, next_match_phase, pattern, pattern_index_sequence,
                              backtrack_table, match_bound, match_cache, stack, ret, op,
                              hist, histTag, firstFresh, lastCompute, text, noted>>
          ELSE /\ Advance("subn", next_begin(Self), <<>>, "other")
               /\ text' = [NoText EXCEPT !.count = subs_count, !.n = subs_count,
                                         !.fresh = IsFresh(Self)]
               /\ UNCHANGED noted
    /\ UNCHANGED <<tree, target, scanner>>

\* the for loop of the running splitn / subn takes the result of next
Iterate ==
    /\ op \in {"splitn", "subn"}
    /\ stack = <<>>
    /\ Len(text.matches) < MaxPulled
    /\ LET b == IF op = "splitn" THEN splitn_loop(text, ret) ELSE subn_loop(text, ret)
       IN  IF b.panic
           THEN /\ Commit(Idle(Self))
                /\ op' = "panicked"
                /\ out' = Result("panic", Panic, FALSE, 0)
                /\ text' = text
                /\ UNCHANGED <<noted, hist, histTag>>
           ELSE IF b.done
           THEN /\ Commit(Idle(Self))
                /\ op' = "idle"
                /\ out' = TextResult(op, b.text)
                /\ text' = NoText
                /\ noted' = NoteText(noted, op, b.text)
                /\ UNCHANGED <<hist, histTag>>
           ELSE /\ Advance(op, next_begin(Idle(Self)), <<>>, "other")
                /\ text' = b.text
                /\ UNCHANGED noted
    /\ UNCHANGED <<tree, target, scanner>>

----------------------------------------------------------------------------
(* escape (matcher/mod.rs) and the Scanner (scanner/mod.rs) *)

\* the characters of pattern strings: the metacharacters and an ordinary one
PatternChars == {"a", "(", ")", "\\", "|", "*", "+", ".", "?"}

METACHARACTERS == {"(", ")", "\\", "|", "*", ".", "?"}

\* escape(pattern): two slashes are pushed before each metacharacter
RECURSIVE escape(_)
escape(s) ==
    IF s = <<>> THEN <<>>
    ELSE (IF Head(s) \in METACHARACTERS THEN <<"\\", "\\", Head(s)>> ELSE <<Head(s)>>)
         \o escape(Tail(s))

\* the character \0 that Scanner::get returns for an index out of range
Nul == "nul"

\* Scanner::get(index, offset)
get(sc, index, offset) ==
    IF index + offset < 0 \/ index + offset >= Len(sc.source) THEN Nul
    ELSE sc.source[index + offset + 1]

previous(sc) == get(sc, sc.current, -1)
peek(sc) == get(sc, sc.current, 0)
next_char(sc) == get(sc, sc.current, 1)

Token(name, value, position) == [name |-> name, value |-> value, position |-> position]

\* the token names of the metacharacters and of the escaped metacharacters
MetaName(c) ==
    CASE c = "|" -> "Pipe" [] c = "?" -> "Mark" [] c = "*" -> "Star"
      [] c = "+" -> "Plus" [] c = "." -> "Dot"
EscapedName(c) ==
    CASE c = "\\" -> "EscapedSlash" [] c = "(" -> "EscapedLeftParen"
      [] c = ")" -> "EscapedRightParen" [] c = "|" -> "EscapedPipe"
      [] c = "?" -> "EscapedMark" [] c = "*" -> "EscapedStar"
      [] c = "+" -> "EscapedPlus" [] c = "." -> "EscapedDot"
Escapable == {"\\", "(", ")", "|", "?", "*", "+", "."}

\* the three cases in which Scanner::next returns an EmptyString token
EmptyStringHere(sc) ==
    \/ Len(sc.source) = 0
    \/ Len(sc.source) = 1 /\ peek(sc) = "|"
    \/ previous(sc) = "(" /\ peek(sc) \in {"|", ")"}
    \/ previous(sc) = "|" /\ peek(sc) \in {")", "|"}
    \/ peek(sc) = "|" /\ sc.current + 1 = Len(sc.source)

\* Scanner::next returns the token t after moving the cursor by step
Emit(sc, t, step) ==
    [sc EXCEPT !.tokens = Append(@, t), !.current = @ + step]

\* Scanner::new(source)
NewScanner(source) == [NoScanner EXCEPT !.source = source, !.status = "scanning"]

\* Iterator::next of the Scanner
ScannerNext(sc) ==
    IF get(sc, sc.current, -2) # "\\" /\ ~sc.found_empty_string /\ EmptyStringHere(sc)
    THEN [Emit(sc, Token("EmptyString", "", sc.current), 0) EXCEPT !.found_empty_string = TRUE]
    ELSE LET s1 == [sc EXCEPT !.found_empty_string = FALSE]
             c == peek(sc)
         IN  IF ~(s1.current < Len(s1.source))
             THEN [s1 EXCEPT !.status = IF s1.groupings # <<>> THEN "panicked" ELSE "done"]
             ELSE CASE c = "(" ->
                         Emit([s1 EXCEPT !.groupings = Append(@, s1.current)],
                              Token("LeftParen", "", s1.current), 1)
                    [] c = ")" ->
                         IF s1.groupings = <<>>
                         THEN [s1 EXCEPT !.status = "panicked"]
                         ELSE Emit([s1 EXCEPT !.groupings = Front(@)],
                                   Token("RightParen", "", s1.current), 1)
                    [] c \in {"|", "?", "*", "+", "."} ->
                         Emit(s1, Token(MetaName(c), "", s1.current), 1)
                    [] c = "\\" ->
                         IF next_char(s1) \in Escapable
                         THEN Emit(s1, Token(EscapedName(next_char(s1)), "", s1.current), 2)
                         ELSE Emit(s1, Token("Character", c, s1.current), 1)
                    [] OTHER -> Emit(s1, Token("Character", c, s1.current), 1)

\* the pattern strings given to the Scanner, and the strings given to escape
RECURSIVE StringsUpTo(_, _)
StringsUpTo(chars, n) ==
    IF n = 0 THEN {<<>>}
    ELSE StringsUpTo(chars, n - 1)
         \cup {Append(w, c) : w \in StringsUpTo(chars, n - 1), c \in chars}

\* a Scanner is made for a pattern string
ScannerNew ==
    /\ scanner.status # "scanning"
    /\ \E source \in StringsUpTo(PatternChars, MaxSource) :
          scanner' = NewScanner(source)
    /\ UNCHANGED <<tree, target, pos, next_match_phase, pattern, pattern_index_sequence,
                   backtrack_table, match_bound, match_cache, stack, ret, op, out, hist,
                   histTag, firstFresh, lastCompute, text, noted>>

\* a Scanner is made for the pattern string escape(s)
ScannerEscaped ==
    /\ scanner.status # "scanning"
    /\ \E s \in StringsUpTo(PatternChars, MaxLiteral) :
          scanner' = [NewScanner(escape(s)) EXCEPT !.escaped = TRUE, !.literal = s]
    /\ UNCHANGED <<tree, target, pos, next_match_phase, pattern, pattern_index_sequence,
                   backtrack_table, match_bound, match_cache, stack, ret, op, out, hist,
                   histTag, firstFresh, lastCompute, text, noted>>

\* the next token is asked for
ScannerStep ==
    /\ scanner.status = "scanning"
    /\ scanner' = ScannerNext(scanner)
    /\ UNCHANGED <<tree, target, pos, next_match_phase, pattern, pattern_index_sequence,
                   backtrack_table, match_bound, match_cache, stack, ret, op, out, hist,
                   histTag, firstFresh, lastCompute, text, noted>>

----------------------------------------------------------------------------
(* assign_match_target, assign_pattern_string, assign_pattern_regexp, and   *)
(* Matcher::new from a pattern string                                       *)

\* Parser::parse pulls the Scanner to its end
RECURSIVE ScanAll(_)
ScanAll(sc) == IF sc.status # "scanning" THEN sc ELSE ScanAll(ScannerNext(sc))

\* whether the pattern string ends with a backslash that no backslash escapes
RECURSIVE DanglingFrom(_, _)
DanglingFrom(source, i) ==
    IF i > Len(source) THEN FALSE
    ELSE IF source[i] # "\\" THEN DanglingFrom(source, i + 1)
    ELSE IF i = Len(source) THEN TRUE
    ELSE IF source[i + 1] \in Escapable THEN DanglingFrom(source, i + 2)
    ELSE DanglingFrom(source, i + 1)
DanglingEscape(source) == DanglingFrom(source, 1)

\* the pattern strings given to Matcher::new and assign_pattern_string, and
\* the trees of the well-formed ones
PatternStrings == {<<"a">>, <<".", "*">>, <<"(">>, <<"a", ")">>, <<"a", "\\">>}
TreeOf(source) ==
    IF source = <<"a">> THEN Lit("a") ELSE Dot("ZeroOrMore")

\* Parser::parse(source): the panic of the Scanner goes through it; it returns
\* Err for a dangling escape and the tree otherwise
parse(source) ==
    IF ScanAll(NewScanner(source)).status = "panicked" THEN [kind |-> "panic", tree |-> EmptyExpression]
    ELSE IF DanglingEscape(source) THEN [kind |-> "Err", tree |-> EmptyExpression]
    ELSE [kind |-> "Ok", tree |-> TreeOf(source)]

\* the outcome of parse for each pattern string, and the well-formed ones
ParseOf == [w \in PatternStrings |-> parse(w)]
WellFormed == {w \in PatternStrings : ParseOf[w].kind = "Ok"}

\* the targets given to assign_match_target
AssignTargets == {[i \in 1..k |-> "a"] : k \in 0..MaxAssignLen}

\* an assign_match_target that keeps the match cache
assign_match_target_kept(m) == reset(m)

\* Matcher::assign_match_target, after the target is stored
assign_match_target(m) == reset([m EXCEPT !.cache = <<>>])

\* Matcher::assign_pattern_string / assign_pattern_regexp, after the pattern is stored
assign_pattern(m) == reset([m EXCEPT !.pattern = <<>>, !.cache = <<>>])

\* what is observed of the Matcher starts anew with a new target or pattern
Assigned(m) == [Idle(m) EXCEPT !.first = NoRet]

\* Matcher::assign_match_target(t) is called
AssignMatchTarget ==
    /\ op = "idle"
    /\ \E t \in AssignTargets :
          /\ target' = t
          /\ out' = [Result("assign_match_target", NoRet, TRUE, 0) EXCEPT !.text = t]
    /\ Commit(Assigned(assign_match_target(Self)))
    /\ hist' = <<>>
    /\ histTag' = "assigned"
    /\ noted' = [NothingNoted EXCEPT !.cleared = Len(match_cache)]
    /\ UNCHANGED <<tree, op, text, scanner>>

\* Matcher::assign_pattern_regexp(regexp) is called
AssignPatternRegexp ==
    /\ op = "idle"
    /\ \E source \in WellFormed : tree' = ParseOf[source].tree
    /\ out' = Result("assign_pattern_regexp", NoRet, TRUE, 0)
    /\ Commit(Assigned(assign_pattern(Self)))
    /\ hist' = <<>>
    /\ histTag' = "other"
    /\ noted' = [NothingNoted EXCEPT !.cleared = Len(match_cache)]
    /\ UNCHANGED <<target, op, text, scanner>>

\* Matcher::assign_pattern_string(source) is called: value tells Ok from Err,
\* match is Panic when the call panicked
AssignPatternString ==
    /\ op = "idle"
    /\ \E source \in PatternStrings :
          LET p == ParseOf[source]
              o == [Result("assign_pattern_string", NoRet, p.kind = "Ok", 0) EXCEPT !.text = source]
          IN  IF p.kind = "panic"
              THEN /\ op' = "panicked"
                   /\ out' = [o EXCEPT !.match = Panic]
                   /\ UNCHANGED <<tree, pos, next_match_phase, pattern, pattern_index_sequence,
                                  backtrack_table, match_bound, match_cache, stack, ret,
                                  hist, histTag, firstFresh, lastCompute, noted>>
              ELSE IF p.kind = "Err"
              THEN /\ out' = o
                   /\ UNCHANGED <<tree, pos, next_match_phase, pattern, pattern_index_sequence,
                                  backtrack_table, match_bound, match_cache, stack, ret, op,
                                  hist, histTag, firstFresh, lastCompute, noted>>
              ELSE /\ tree' = p.tree
                   /\ out' = o
                   /\ Commit(Assigned(assign_pattern(Self)))
                   /\ hist' = <<>>
                   /\ histTag' = "other"
                   /\ noted' = [NothingNoted EXCEPT !.cleared = Len(match_cache)]
                   /\ op' = op
    /\ UNCHANGED <<target, text, scanner>>

\* Matcher::new(source, target) is called for the target in use: on Err no
\* Matcher is made and the one in use stays
ConstructString ==
    /\ op = "idle"
    /\ \E source \in PatternStrings :
          LET p == ParseOf[source]
              o == [Result("new", NoRet, p.kind = "Ok", 0) EXCEPT !.text = source]
          IN  IF p.kind = "panic"
              THEN /\ op' = "panicked"
                   /\ out' = [o EXCEPT !.match = Panic]
                   /\ UNCHANGED <<tree, pos, next_match_phase, pattern, pattern_index_sequence,
                                  backtrack_table, match_bound, match_cache, stack, ret,
                                  hist, histTag, firstFresh, lastCompute, noted>>
              ELSE IF p.kind = "Err"
              THEN /\ out' = o
                   /\ UNCHANGED <<tree, pos, next_match_phase, pattern, pattern_index_sequence,
                                  backtrack_table, match_bound, match_cache, stack, ret, op,
                                  hist, histTag, firstFresh, lastCompute, noted>>
              ELSE /\ tree' = p.tree
                   /\ out' = o
                   /\ Commit(NewMatcher(Len(target))
                             @@ [first |-> IF p.tree = tree THEN firstFresh ELSE NoRet,
                                 last |-> NoCompute])
                   /\ hist' = <<>>
                   /\ histTag' = "new"
                   /\ noted' = IF p.tree = tree THEN noted ELSE NothingNoted
                   /\ op' = op
    /\ UNCHANGED <<target, text, scanner>>

\* every public operation, in any order
Next == Construct \/ CallNext \/ Seek \/ Reset \/ IsMatching \/ Fullmatch \/ Step

----------------------------------------------------------------------------
(* Patterns and targets *)

\* every target over the alphabet, up to the given length
TargetsUpTo(n) == UNION {[1..k -> Alphabet] : k \in 0..n}

\* the target c^n
RECURSIVE Repeat(_, _)
Repeat(w, n) == IF n = 0 THEN <<>> ELSE w \o Repeat(w, n - 1)

\* the expression trees of the patterns the model draws from
PatEmpty == EmptyExpression                                             \* ""
PatStarThenSame(c) == Concatenation(<<LitQ(c, "ZeroOrMore"), Lit(c)>>)  \* c*c
PatAltGroup == Group(Alternation(<<Lit("a"), Concatenation(<<Lit("a"), Lit("b")>>)>>), "None")  \* (a|ab)
PatGroupPlus(w) ==                                                      \* (w)+
    Group(IF Len(w) = 1 THEN Lit(w[1])
          ELSE Concatenation([i \in 1..Len(w) |-> Lit(w[i])]), "OneOrMore")

Patterns ==
    {PatEmpty, Lit("a"), LitQ("a", "ZeroOrOne"), LitQ("a", "ZeroOrMore"), LitQ("a", "OneOrMore"),
     LitQ("b", "ZeroOrMore"), LitQ("b", "OneOrMore"),
     Dot("None"), Dot("ZeroOrMore"), Dot("OneOrMore"),
     Concatenation(<<LitQ("a", "ZeroOrMore")>>),                        \* a*, as a concatenation of one
     Concatenation(<<LitQ("a", "OneOrMore")>>),                         \* a+, as a concatenation of one
     PatStarThenSame("a"), PatStarThenSame("b"),
     Concatenation(<<LitQ("a", "ZeroOrOne"), Lit("b")>>),               \* a?b
     Concatenation(<<LitQ("a", "OneOrMore"), LitQ("b", "ZeroOrMore")>>),\* a+b*
     Concatenation(<<Dot("ZeroOrMore"), Lit("b")>>),                    \* .*b
     Alternation(<<Lit("a"), Concatenation(<<Lit("a"), Lit("b")>>)>>),  \* a|ab
     PatAltGroup,
     Alternation(<<Concatenation(<<Lit("a"), Lit("b")>>), Lit("a")>>),  \* ab|a
     Alternation(<<Lit("b"), EmptyExpression>>),                        \* b|
     Concatenation(<<PatAltGroup, Lit("b")>>),                          \* (a|ab)b
     PatGroupPlus(<<"a">>), PatGroupPlus(<<"a", "b">>),
     Group(Lit("a"), "ZeroOrOne"),                                      \* (a)?
     Group(Alternation(<<Dot("None"), Dot("ZeroOrMore")>>), "ZeroOrMore"), \* (.|.*)*
     Group(Concatenation(<<LitQ("a", "ZeroOrMore"), Lit("b")>>), "ZeroOrMore")} \* (a*b)*

\* patterns matched against the repetitions of a word
Words == {<<"a">>, <<"a", "b">>}
RepeatPatterns == {PatGroupPlus(w) : w \in Words}
RepeatTargets == {Repeat(w, k) : w \in Words, k \in 1..MaxRep}

Targets == TargetsUpTo(MaxLen)

\* the pairs (pattern, target) a Matcher is constructed for
Cases == (Patterns \X Targets) \cup (RepeatPatterns \X RepeatTargets)

\* Matcher::new(pattern, target), for a pair of cases
InitFor(cases) ==
    /\ \E c \in cases : tree = c[1] /\ target = c[2]
    /\ pos = 0
    /\ next_match_phase = "Normal"
    /\ pattern = <<>>
    /\ pattern_index_sequence = <<>>
    /\ backtrack_table = <<>>
    /\ match_bound = Len(target) + 1
    /\ match_cache = <<>>
    /\ stack = <<>>
    /\ ret = NoRet
    /\ firstFresh = NoRet
    /\ lastCompute = NoCompute
    /\ op = "idle"
    /\ out = Result("new", NoRet, FALSE, 0)
    /\ hist = <<>>
    /\ histTag = "new"
    /\ text = NoText
    /\ noted = NothingNoted
    /\ scanner = NoScanner

Init == InitFor(Cases)

Spec == Init /\ [][Next]_vars

----------------------------------------------------------------------------
(* Properties of the match sequence of a freshly constructed Matcher.       *)
(* hist with histTag = "new" is the run of results of the next() calls made *)
(* since Matcher::new, with no other call in between.                       *)

\* C1: the matches a freshly constructed Matcher returns from successive
\* next() calls lie within the target (0 <= start <= end <= len(target)) and do
\* not overlap: each one starts at or after the end of the one before it.
NonOverlappingMatches ==
    histTag = "new" =>
        /\ \A i \in 1..Len(hist) :
              IsSome(hist[i]) =>
                  /\ 0 <= hist[i].start
                  /\ hist[i].start <= hist[i].end
                  /\ hist[i].end <= Len(target)
        /\ \A i \in 1..(Len(hist) - 1) :
              IsSome(hist[i]) /\ IsSome(hist[i + 1]) => hist[i].end <= hist[i + 1].start

\* C2: for the empty pattern over a target of length L (L = 0 included) a
\* fresh Matcher returns the zero-width matches at 0, 1, ..., L, in this
\* order, and None from the call L+2 on.
EmptyPatternMatches ==
    tree = PatEmpty /\ histTag = "new" =>
        \A i \in 1..Len(hist) :
            hist[i] = IF i <= Len(target) + 1 THEN Match(i - 1, i - 1) ELSE None

\* C3: for the pattern c*c over the target c^n (n >= 1), on a fresh Matcher:
\* the first match is [0,n) and fullmatch is true; in the search that finds it
\* the starred child first matches the whole run [0,n), the concatenation
\* rewinds to it exactly once, and its second match gives one character back,
\* [0,n-1).
StarThenSameBacktracks ==
    \A c \in Alphabet :
        tree = PatStarThenSame(c) /\ Len(target) >= 1
           /\ (\A i \in 1..Len(target) : target[i] = c) =>
            LET n == Len(target)
                searching == Len(stack) = 2 /\ stack[1].from_fresh
            IN  /\ histTag = "new" /\ Len(hist) >= 1 => hist[1] = Match(0, n)
                /\ firstFresh # NoRet => firstFresh = Match(0, n)
                /\ out.op = "fullmatch" /\ out.fresh => out.value /\ out.match = Match(0, n)
                /\ searching => ~stack[2].looped /\ Cardinality(stack[2].rewinds) <= 1
                /\ searching /\ ret # NoRet /\ lastCompute.pattern = <<0>> =>
                      lastCompute.result =
                          IF stack[2].rewinds = {} THEN Match(0, n) ELSE Match(0, n - 1)
                /\ searching /\ ret # NoRet /\ lastCompute.pattern = <<1>> =>
                      lastCompute.result =
                          IF stack[2].rewinds = {} THEN None ELSE Match(n - 1, n)

\* a*a over "aaa": the fresh fullmatch returned true with the match [0,3)
StarThenSameFullmatch ==
    /\ tree = PatStarThenSame("a")
    /\ target = <<"a", "a", "a">>
    /\ out.op = "fullmatch" /\ out.fresh /\ out.value
    /\ out.match = Match(0, 3)

AlternationOrder ==
    /\ ret # NoRet /\ ret # Panic
         /\ NodeAt(tree, lastCompute.pattern).type = "Alternation" =>
          LET tried == lastCompute.tried
              n == Len(NodeAt(tree, lastCompute.pattern).children)
          IN  /\ Len(tried) >= 1 /\ Len(tried) <= n
              /\ \A i \in 1..Len(tried) :
                    /\ tried[i].child = i - 1
                    /\ tried[i].cursor = Min(lastCompute.from, Len(target))
                    /\ i < Len(tried) => tried[i].result = None
              /\ lastCompute.result = tried[Len(tried)].result
              /\ lastCompute.result = None => Len(tried) = n
    /\ tree \in {PatAltGroup, PatAltGroup.children[1]} /\ target = <<"a", "b">>
         /\ histTag = "new" /\ Len(hist) >= 1 => hist[1] = Match(0, 1)

\* (a|ab) over "ab": the alternation returned [0,1) after trying its first child only
AlternationFirstWins ==
    /\ tree = PatAltGroup
    /\ target = <<"a", "b">>
    /\ ret = Match(0, 1)
    /\ lastCompute.pattern = <<0>>
    /\ Len(lastCompute.tried) = 1

\* C6: for (w)+ over w^k (w a non-empty word, k >= 1) a fresh Matcher returns
\* the one match [0, k*len(w)) and then None.
GroupPlusOneMatch ==
    \A w \in Words : \A k \in 1..MaxRep :
        tree = PatGroupPlus(w) /\ target = Repeat(w, k) /\ histTag = "new" =>
            \A i \in 1..Len(hist) :
                hist[i] = IF i = 1 THEN Match(0, k * Len(w)) ELSE None

\* (ab)+ over "ababab": [0,6), then None
GroupPlusThenNone ==
    /\ tree = PatGroupPlus(<<"a", "b">>)
    /\ target = <<"a", "b", "a", "b", "a", "b">>
    /\ histTag = "new"
    /\ hist = <<Match(0, 6), None>>

\* C7: every call of next() terminates: no concatenation_match rewinds twice to
\* the same child with the same backtrack records (and so the same cursor),
\* which would repeat for ever.
NextTerminates ==
    \A i \in 1..Len(stack) : ~stack[i].looped

\* C8: the match sequence is finite: from a fresh Matcher, and after a reset,
\* next() returns at most len(target)+1 matches, and once it returned None it
\* returns None until seek, reset or a reassignment.
MatchSequenceFinite ==
    histTag \in {"new", "reset"} =>
        /\ Cardinality({i \in 1..Len(hist) : IsSome(hist[i])}) <= Len(target) + 1
        /\ \A i \in 1..Len(hist) : \A j \in i..Len(hist) :
              hist[i] = None => hist[j] = None

\* C9: fullmatch returns true exactly when the first match of the sequence
\* computed from offset 0 (the first match of a fresh Matcher) is
\* [0, len(target)), whatever was called on the Matcher before.
FullmatchIndependentOfHistory ==
    out.op = "fullmatch" /\ firstFresh # NoRet =>
        (out.value <=> firstFresh = Match(0, Len(target)))

\* C10: is_matching, whenever it returns, returns true exactly when the pair
\* (pattern, target) has a match (the first next() of a fresh Matcher returns
\* one), in whatever state it is called, any number of times in a row.
IsMatchingIffSomeMatch ==
    out.op = "is_matching" /\ firstFresh # NoRet => (out.value <=> IsSome(firstFresh))

\* is_matching found no match from where the Matcher stood, restarted from 0
\* and returned true
IsMatchingRetried ==
    /\ out.op = "is_matching"
    /\ out.calls = 2
    /\ out.value
    /\ firstFresh # NoRet

----------------------------------------------------------------------------
(* splitn / split and subn / sub, on a Matcher for a short target *)

TextPatterns ==
    {PatEmpty, Lit("a"), LitQ("a", "ZeroOrMore"), LitQ("b", "OneOrMore"),
     Alternation(<<Lit("a"), Concatenation(<<Lit("a"), Lit("b")>>)>>),
     Group(Alternation(<<Dot("None"), Dot("ZeroOrMore")>>), "ZeroOrMore")}

TextCases == TextPatterns \X TargetsUpTo(MaxTextLen)

InitText == InitFor(TextCases)

NextText == Construct \/ CallNext \/ Reset \/ Splitn \/ Subn \/ Iterate \/ Step

SpecText == InitText /\ [][NextText]_vars

----------------------------------------------------------------------------
(* a Matcher whose target and pattern are reassigned *)

AssignCases == {ParseOf[w].tree : w \in WellFormed} \X AssignTargets

InitAssign == InitFor(AssignCases)

\* every operation on one Matcher
NextAssign ==
    \/ CallNext \/ Seek \/ Reset \/ IsMatching \/ Fullmatch \/ Step
    \/ Splitn \/ Subn \/ Iterate
    \/ AssignMatchTarget \/ AssignPatternRegexp \/ AssignPatternString

SpecAssign == InitAssign /\ [][NextAssign]_vars

\* a Matcher whose target is reassigned, and one constructed for the new target
NextReassign == Construct \/ CallNext \/ Reset \/ Step \/ AssignMatchTarget

SpecReassign == InitAssign /\ [][NextReassign]_vars

----------------------------------------------------------------------------
(* a Matcher that is given pattern strings, malformed ones among them *)

NextParse == Construct \/ CallNext \/ Reset \/ Step \/ AssignPatternString \/ ConstructString

SpecParse == InitAssign /\ [][NextParse]_vars

----------------------------------------------------------------------------
(* the Scanner over short pattern strings, those made by escape among them *)

InitScan == InitFor({<<PatEmpty, <<>>>>})

NextScan == ScannerNew \/ ScannerEscaped \/ ScannerStep

SpecScan == InitScan /\ [][NextScan]_vars

\* segment, match, segment, ..., segment: the segments interleaved with the
\* matched substrings of the target
RECURSIVE Interleave(_, _)
Interleave(segments, ms) ==
    IF segments = <<>> THEN <<>>
    ELSE IF ms = <<>> THEN Head(segments)
    ELSE Head(segments) \o Slice(Head(ms).start, Head(ms).end)
         \o Interleave(Tail(segments), Tail(ms))

\* C11: split() returns one segment more than the sequence has matches, and
\* the segments interleaved with the matched substrings, in order, give back
\* the target
SplitReconstructsTarget ==
    (out.op = "splitn" /\ out.arg = Len(target) + 1)
        => /\ Len(out.text) = Len(out.matches) + 1
           /\ Interleave(out.text, out.matches) = target

\* the segments that the first k matches of ms cut out of the target, read
\* from the offset from on: the text before each match, then the remainder
RECURSIVE SegmentsOf(_, _, _)
SegmentsOf(ms, k, from) ==
    IF k = 0 \/ ms = <<>> THEN <<Slice(from, Len(target))>>
    ELSE <<Slice(from, Head(ms).start)>> \o SegmentsOf(Tail(ms), k - 1, Head(ms).end)

\* C12: splitn(n) returns min(n, M) + 1 segments, M the number of matches of
\* the sequence: the text before each of the first min(n, M) matches and the
\* remainder after the last of them, which is appended also when n = 0
SplitnSegments ==
    out.op = "splitn"
        => /\ Len(out.text) = Min(out.arg, Len(out.matches)) + 1
           /\ out.text = SegmentsOf(out.matches, out.arg, 0)

\* the segments joined with the replacement string
RECURSIVE Join(_, _)
Join(segments, r) ==
    IF segments = <<>> THEN <<>>
    ELSE IF Len(segments) = 1 THEN Head(segments)
    ELSE Head(segments) \o r \o Join(Tail(segments), r)

\* C13: the string sub(r) returns does not depend on the matches pulled from
\* the Matcher before the call: it is the string a fresh Matcher returns, and
\* it is the segments of split() joined with r
SubnIndependentOfHistory ==
    (out.op = "subn" /\ out.arg = Len(target) + 1)
        => /\ noted.fresh_sub.seen => out.text = noted.fresh_sub.value
           /\ noted.split.seen => out.text = Join(noted.split.value, Repl)

\* the character a token stands for when it stands for one literally, Nul if not
TokenLiteral(t) ==
    CASE t.name = "Character" -> t.value
      [] t.name = "EscapedSlash" -> "\\"
      [] t.name = "EscapedLeftParen" -> "("
      [] t.name = "EscapedRightParen" -> ")"
      [] t.name = "EscapedPipe" -> "|"
      [] t.name = "EscapedMark" -> "?"
      [] t.name = "EscapedStar" -> "*"
      [] t.name = "EscapedPlus" -> "+"
      [] t.name = "EscapedDot" -> "."
      [] OTHER -> Nul

\* the tokens but the EmptyString ones
RECURSIVE NonEmptyTokens(_)
NonEmptyTokens(ts) ==
    IF ts = <<>> THEN <<>>
    ELSE (IF Head(ts).name = "EmptyString" THEN <<>> ELSE <<Head(ts)>>)
         \o NonEmptyTokens(Tail(ts))

\* C14: the pattern escape(s) denotes the literal string s, so that it matches
\* the target s in full and no target with one more character: the Scanner
\* reads escape(s) to its end and returns one literal token per character of s
EscapeRoundTrip ==
    scanner.escaped
        => /\ scanner.status # "panicked"
           /\ scanner.status = "done"
                => LET ts == NonEmptyTokens(scanner.tokens)
                   IN  /\ Len(ts) = Len(scanner.literal)
                       /\ \A i \in 1..Len(ts) : TokenLiteral(ts[i]) = scanner.literal[i]

\* C15: after assign_match_target(t) the Matcher returns what a Matcher
\* freshly constructed for the same pattern and t returns: the first next()
\* after the assignment returns the first match of the fresh Matcher
AssignTargetAsFresh ==
    (noted.after_assign # NoRet /\ firstFresh # NoRet) => noted.after_assign = firstFresh

\* the operations that assign a target or a pattern
AssignOps == {"assign_match_target", "assign_pattern_string", "assign_pattern_regexp"}

\* the cache holds every entry of the cache c
KeepsEntries(c) == \A i \in 1..Len(c) : \E j \in 1..Len(match_cache) : match_cache[j] = c[i]

RECURSIVE UnbalancedFrom(_, _, _)
UnbalancedFrom(source, i, depth) ==
    IF i > Len(source) THEN depth > 0
    ELSE IF source[i] = "\\" /\ i < Len(source) /\ source[i + 1] \in Escapable
    THEN UnbalancedFrom(source, i + 2, depth)
    ELSE IF source[i] = "(" THEN UnbalancedFrom(source, i + 1, depth + 1)
    ELSE IF source[i] = ")"
    THEN (depth = 0 \/ UnbalancedFrom(source, i + 1, depth - 1))
    ELSE UnbalancedFrom(source, i + 1, depth)
Unbalanced(source) == UnbalancedFrom(source, 1, 0)

\* C17: for a malformed pattern string Matcher::new and assign_pattern_string
\* return the syntax error as a value, and leave the Matcher that was in use
\* as it was: pattern, target, cursor, phase, backtrack state and match cache
MalformedPatternIsError ==
    [][ (/\ out'.op \in {"new", "assign_pattern_string"}
         /\ (Unbalanced(out'.text) \/ DanglingEscape(out'.text)))
            => /\ out'.match # Panic
               /\ ~out'.value
               /\ UNCHANGED <<tree, target, pos, next_match_phase, pattern,
                              pattern_index_sequence, backtrack_table, match_bound,
                              match_cache>>
      ]_vars

\* C18: the Scanner pulled to its end raises the syntax error exactly when
\* the unescaped parentheses of the pattern are unbalanced, and ends with a
\* plain end of sequence otherwise; the error is an error outcome, as the one
\* the builder returns, and no other kind of failure
UnbalancedIsSyntaxError ==
    scanner.status \notin {"unused", "scanning"}
        => IF Unbalanced(scanner.source)
           THEN scanner.status = "error"
           ELSE scanner.status = "done"

\* C19: for a pattern that ends with a dangling escape (its parentheses
\* balanced) the Scanner raises the syntax error and returns no token for the
\* backslash
DanglingEscapeIsSyntaxError ==
    (/\ scanner.status \notin {"unused", "scanning"}
     /\ DanglingEscape(scanner.source)
     /\ ~Unbalanced(scanner.source))
        => /\ scanner.status = "error"
           /\ \A i \in 1..Len(scanner.tokens) :
                  scanner.tokens[i].position # Len(scanner.source) - 1

ResetAsFresh ==
    (/\ histTag = "reset"
     /\ Len(hist) >= 1
     /\ firstFresh # NoRet)
        => hist[1] = firstFresh

----------------------------------------------------------------------------
(* Backtracking inside a concatenation: the searches of a freshly           *)
(* constructed Matcher over patterns whose concatenations rewind to a       *)
(* quantified child.  lastCompute is the compute_match call that returned   *)
(* last: the node, the cursor it was invoked at (from), its result and the  *)
(* cursor it left (to).                                                     *)

BacktrackPatterns ==
    {PatStarThenSame("a"),                                               \* a*a
     Concatenation(<<LitQ("a", "OneOrMore"), Lit("a")>>),                \* a+a
     Concatenation(<<LitQ("a", "ZeroOrOne"), Lit("a")>>),                \* a?a
     Concatenation(<<Dot("ZeroOrMore"), Lit("b")>>),                     \* .*b
     Concatenation(<<Dot("OneOrMore"), Lit("b")>>),                      \* .+b
     Concatenation(<<Lit("a"), Dot("OneOrMore"), Lit("b")>>),            \* a.+b
     Concatenation(<<Lit("a"), Dot("ZeroOrMore"), Lit("b")>>),           \* a.*b
     Concatenation(<<Group(Lit("a"), "ZeroOrOne"), Lit("b")>>),          \* (a)?b
     Concatenation(<<Group(Lit("a"), "ZeroOrOne"), Lit("a")>>),          \* (a)?a
     Concatenation(<<Group(Lit("a"), "ZeroOrMore"), Lit("a")>>),         \* (a)*a
     Concatenation(<<Group(Lit("a"), "OneOrMore"), Lit("a")>>),          \* (a)+a
     Concatenation(<<LitQ("a", "ZeroOrMore"), LitQ("b", "ZeroOrMore"), Lit("a")>>), \* a*b*a
     Concatenation(<<LitQ("a", "ZeroOrOne"), LitQ("a", "ZeroOrOne"), Lit("a")>>),   \* a?a?a
     Concatenation(<<LitQ("a", "ZeroOrMore"), Lit("b"), LitQ("a", "ZeroOrMore"), Lit("b")>>)} \* a*ba*b

InitBacktrack == InitFor(BacktrackPatterns \X Targets)

\* the searches of a Matcher that is only iterated
NextSearch == CallNext \/ Step

SpecBacktrack == InitBacktrack /\ [][NextSearch]_vars

\* C22: whenever the evaluation of a node invoked at cursor p fails, the
\* cursor is p again when the evaluation returns, on a first attempt and on
\* a re-attempt during backtracking alike
FailureRestoresCursor ==
    lastCompute.result = None => lastCompute.to = lastCompute.from

\* C23: whenever the evaluation of a node invoked at cursor p succeeds, the
\* range [s, e) it returns has s = p and p <= e <= len(target), and the cursor
\* is left at e, on a first attempt and on the re-attempt of a child a
\* concatenation has rewound to alike
SuccessLeavesCursorAtEnd ==
    IsSome(lastCompute.result)
        => /\ lastCompute.result.start = lastCompute.from
           /\ lastCompute.from <= lastCompute.result.end
           /\ lastCompute.result.end <= Len(target)
           /\ lastCompute.to = lastCompute.result.end

----------------------------------------------------------------------------
(* The language of an expression: InLang(node, s, e) holds when the slice   *)
(* of the target from s up to e (exclusive) is a word the expression        *)
(* denotes, with the quantifiers read as zero or one, zero or more and one  *)
(* or more occurrences.                                                     *)

RECURSIVE BaseLang(_, _, _), ConcatLang(_, _, _, _), RepLang(_, _, _), InLang(_, _, _)

\* one occurrence of the node, its quantifier left aside
BaseLang(node, s, e) ==
    CASE node.type = "EmptyExpression" -> s = e
      [] node.type = "CharacterExpression" ->
            /\ e = s + 1
            /\ node.value = <<>> \/ target[s + 1] = node.value[1]
      [] node.type = "Group" -> InLang(node.children[1], s, e)
      [] node.type = "Alternation" ->
            \E i \in 1..Len(node.children) : InLang(node.children[i], s, e)
      [] OTHER -> ConcatLang(node.children, 1, s, e)

\* the children i, i + 1, ... of a concatenation, one after the other
ConcatLang(cs, i, s, e) ==
    IF i > Len(cs) THEN s = e
    ELSE \E m \in s..e : InLang(cs[i], s, m) /\ ConcatLang(cs, i + 1, m, e)

\* one or more occurrences of the node, one after the other
RepLang(node, s, e) ==
    \/ BaseLang(node, s, e)
    \/ \E m \in (s + 1)..(e - 1) : BaseLang(node, s, m) /\ RepLang(node, m, e)

InLang(node, s, e) ==
    CASE node.quantifier = "None" -> BaseLang(node, s, e)
      [] node.quantifier = "ZeroOrOne" -> s = e \/ BaseLang(node, s, e)
      [] node.quantifier = "ZeroOrMore" -> s = e \/ RepLang(node, s, e)
      [] OTHER -> RepLang(node, s, e)

\* C24: every match [s, e) returned by next() lies within the target and is
\* a word of the language of the pattern; a pattern that cannot match the
\* empty string yields no zero-width match
GenuineMatches ==
    \A i \in 1..Len(hist) :
        IsSome(hist[i]) =>
            /\ 0 <= hist[i].start
            /\ hist[i].start <= hist[i].end
            /\ hist[i].end <= Len(target)
            /\ InLang(tree, hist[i].start, hist[i].end)

----------------------------------------------------------------------------
(* Re-attempts of the child a concatenation has rewound to.  While the     *)
(* frame of a concatenation is on top of the stack and ret holds a result,  *)
(* the result is that of the child child_index, which has just returned.    *)

\* the child of the concatenation on top of the stack has just returned from
\* the attempt that followed a rewind to it, and its match before the rewind
\* was not empty
RewoundChildReturned ==
    /\ stack # <<>>
    /\ stack[Len(stack)].kind = "concatenation"
    /\ ret # NoRet
    /\ ret # Panic
    /\ lastCompute.pattern = Append(stack[Len(stack)].old_pattern, stack[Len(stack)].child_index)
    /\ IsSome(stack[Len(stack)].rewound)
    /\ stack[Len(stack)].rewound.end > stack[Len(stack)].rewound.start

\* C25: when a concatenation rewinds to a backtrackable child whose previous
\* successful attempt was [s, e) with e > s, the next attempt of that child
\* fails or succeeds with [s, e') for some e' < e
RewoundChildShrinks ==
    RewoundChildReturned
        => \/ ret = None
           \/ /\ ret.start = stack[Len(stack)].rewound.start
              /\ ret.end < stack[Len(stack)].rewound.end

\* the end of the longest run of characters the leaf accepts that starts at p
\* (every character for Dot, the characters equal to the literal otherwise)
MaxRun(node, p) ==
    CHOOSE m \in p..Len(target) :
        /\ \A i \in (p + 1)..m : node.value = <<>> \/ target[i] = node.value[1]
        /\ m = Len(target) \/ (node.value # <<>> /\ target[m + 1] # node.value[1])

\* what x* / x+ / .* / .+ returns for the run [p, end): the run when it is
\* not empty, otherwise the zero-width match at p for * and failure for +
RunResult(node, p, end) ==
    IF p < end THEN Match(p, end)
    ELSE IF node.quantifier = "ZeroOrMore" THEN Match(p, p)
    ELSE None

\* a Character or Dot leaf quantified with * or + has just returned to the
\* frame on top of the stack
RunLeafReturned ==
    /\ stack # <<>>
    /\ ret # NoRet
    /\ ret # Panic
    /\ lastCompute.result = ret
    /\ lastCompute.from <= Len(target)
    /\ NodeAt(tree, lastCompute.pattern).type = "CharacterExpression"
    /\ NodeAt(tree, lastCompute.pattern).quantifier \in {"ZeroOrMore", "OneOrMore"}

\* the leaf that has just returned was attempted for the first time at this
\* offset of the search: it is the root, or the child of a concatenation that
\* holds no backtrack record for it
FirstAttemptReturned ==
    /\ RunLeafReturned
    /\ \/ stack[Len(stack)].kind = "next"
       \/ /\ stack[Len(stack)].kind = "concatenation"
          /\ lastCompute.pattern = Append(stack[Len(stack)].old_pattern, stack[Len(stack)].child_index)
          /\ stack[Len(stack)].children[stack[Len(stack)].child_index + 1] = 0

\* the leaf that has just returned was re-attempted after the concatenation
\* rewound to it
ReattemptReturned ==
    /\ RunLeafReturned
    /\ stack[Len(stack)].kind = "concatenation"
    /\ lastCompute.pattern = Append(stack[Len(stack)].old_pattern, stack[Len(stack)].child_index)
    /\ IsSome(stack[Len(stack)].rewound)

\* C26: a Character or Dot node quantified with * or + returns on its first
\* attempt at p the maximal run [p, m) (m = len(target) for Dot), and on a
\* re-attempt after a success that ended at e the range [p, min(m, e - 1)): one
\* character is given back per backtracking step, for a literal and for Dot
\* alike; when the range is empty + fails and * returns the zero-width match at p
GreedyRunGivesBackOne ==
    LET node == NodeAt(tree, lastCompute.pattern)
        p == lastCompute.from
        m == MaxRun(node, p)
    IN  /\ FirstAttemptReturned => ret = RunResult(node, p, m)
        /\ ReattemptReturned =>
              ret = RunResult(node, p, Min(m, stack[Len(stack)].rewound.end - 1))

----------------------------------------------------------------------------
(* Groups.  While the frame of a group is on top of the stack and ret holds *)
(* a result, the grouped expression E has just returned that result.        *)

\* the grouped expression of a group quantified with ? has just returned
OptionalGroupChildReturned ==
    /\ stack # <<>>
    /\ stack[Len(stack)].kind = "group"
    /\ stack[Len(stack)].quantifier = "ZeroOrOne"
    /\ ret # NoRet
    /\ ret # Panic

\* C27: a group quantified with ?, evaluated at cursor p, never fails: it
\* returns the match of its child E when E succeeds within the match bound
\* of the group, and otherwise (E fails, or the match of E passes the bound)
\* the zero-width match [p, p) with the cursor at p
OptionalGroupNeverFails ==
    [][ OptionalGroupChildReturned
            => IF IsSome(ret) /\ ret.end < match_bound
               THEN ret' = ret
               ELSE /\ ret' = Match(stack[Len(stack)].enter, stack[Len(stack)].enter)
                    /\ pos' = stack[Len(stack)].enter
      ]_vars

\* patterns with a group quantified with * or +, alone and as the child of a
\* concatenation that rewinds to it
GroupPatterns ==
    {Group(Lit("a"), "ZeroOrMore"),                                      \* (a)*
     Group(Lit("a"), "OneOrMore"),                                       \* (a)+
     PatGroupPlus(<<"a", "b">>),                                         \* (ab)+
     Group(LitQ("a", "ZeroOrMore"), "ZeroOrMore"),                       \* (a*)*
     Group(LitQ("a", "ZeroOrOne"), "OneOrMore"),                         \* (a?)+
     Group(Alternation(<<Lit("a"), EmptyExpression>>), "OneOrMore"),     \* (a|)+
     Group(EmptyExpression, "ZeroOrMore"),                               \* ()*
     Group(Dot("OneOrMore"), "ZeroOrMore"),                              \* (.+)*
     Group(Alternation(<<Concatenation(<<Lit("a"), Lit("b")>>), Lit("a")>>), "ZeroOrMore"), \* (ab|a)*
     Group(Concatenation(<<LitQ("a", "ZeroOrMore"), Lit("b")>>), "ZeroOrMore"), \* (a*b)*
     Group(Group(Lit("a"), "OneOrMore"), "ZeroOrMore"),                  \* ((a)+)*
     Concatenation(<<Group(Lit("a"), "ZeroOrMore"), Lit("a")>>),         \* (a)*a
     Concatenation(<<Group(Lit("a"), "OneOrMore"), Lit("b")>>),          \* (a)+b
     Concatenation(<<Lit("a"), Group(Dot("OneOrMore"), "ZeroOrMore"), Lit("b")>>), \* a(.+)*b
     Concatenation(<<Lit("a"), Group(Dot("OneOrMore"), "OneOrMore"), Lit("b")>>)}  \* a(.+)+b

InitGroup == InitFor(GroupPatterns \X Targets)

SpecGroup == InitGroup /\ [][NextSearch]_vars

\* the grouped expression of a group quantified with * or + has just
\* returned from one iteration of the repetition loop
RepeatedGroupChildReturned ==
    /\ stack # <<>>
    /\ stack[Len(stack)].kind = "group"
    /\ stack[Len(stack)].quantifier \in {"ZeroOrMore", "OneOrMore"}
    /\ ret # NoRet
    /\ ret # Panic

\* what the group f, entered at cursor f.start, returns when its loop ends:
\* with no iteration accepted (end still at start and no zero-width match
\* accepted) + fails and * returns [p, p); otherwise [p, last accepted end)
LoopResult(f) ==
    IF f.end = f.start /\ ~f.matched_empty_string
    THEN IF f.quantifier = "OneOrMore" THEN None ELSE Match(f.start, f.start)
    ELSE Match(f.start, f.end)

\* C28: the repetition loop of a group quantified with * or +, entered at
\* cursor p, ends when E fails, when the match bound is exceeded or when E
\* matches zero-width after a zero-width match was accepted, and accepts the
\* iteration otherwise; when it ends with no iteration accepted + fails with
\* the cursor at p and * returns [p, p), otherwise the result is [p, last
\* accepted end) with the cursor at that end
GroupLoopStep ==
    [][ RepeatedGroupChildReturned =>
          LET f == stack[Len(stack)]
              ends == \/ ret = None
                      \/ pos > match_bound
                      \/ IsEmptyRange(ret) /\ f.matched_empty_string
          IN  IF ends
              THEN /\ Len(stack') = Len(stack) - 1
                   /\ ret' = LoopResult(f)
                   /\ Min(pos', Len(target)) = IF ret' = None THEN f.start ELSE ret'.end
              ELSE /\ Len(stack') >= Len(stack)
                   /\ stack'[Len(stack)].end = ret.end
      ]_vars

\* the pattern is a group quantified with * or + and its evaluation, a first
\* attempt at the offset the search stands at, has just returned
RootGroupReturned ==
    /\ stack # <<>>
    /\ stack[Len(stack)].kind = "next"
    /\ tree.type = "Group"
    /\ tree.quantifier \in {"ZeroOrMore", "OneOrMore"}
    /\ ret # NoRet
    /\ ret # Panic
    /\ lastCompute.pattern = <<>>
    /\ lastCompute.from <= Len(target)

\* C29: on its first attempt at p a group quantified with * or + consumes
\* every consecutive occurrence of E, each iteration starting at the end of
\* the one before and evaluated like a first attempt of E: where the group
\* stops (the end of its match, p when it fails) no non-empty occurrence of
\* E starts
GroupConsumesEveryOccurrence ==
    RootGroupReturned =>
        LET e == IF IsSome(ret) THEN ret.end ELSE lastCompute.from
        IN  \A m \in (e + 1)..Len(target) : ~InLang(tree.children[1], e, m)

----------------------------------------------------------------------------
(* Where a concatenation resumes after one of its children failed.          *)

\* concatenations whose first child is a group with backtrack records of
\* its own descendants
NestedPatterns ==
    {Concatenation(<<Group(Alternation(<<LitQ("a", "OneOrMore"), LitQ("a", "ZeroOrMore")>>), "None"),
                     LitQ("a", "ZeroOrOne"), Lit("a")>>),                 \* (a+|a*)a?a
     Concatenation(<<Group(Alternation(<<LitQ("a", "OneOrMore"), LitQ("b", "ZeroOrMore")>>), "None"),
                     LitQ("a", "ZeroOrMore"), Lit("b")>>),                \* (a+|b*)a*b
     Concatenation(<<Group(Concatenation(<<LitQ("a", "ZeroOrMore"), Lit("b")>>), "ZeroOrOne"),
                     LitQ("b", "ZeroOrMore"), Lit("a")>>)}                \* (a*b)?b*a

InitResume == InitFor((BacktrackPatterns \cup NestedPatterns) \X Targets)

SpecResume == InitResume /\ [][NextSearch]_vars

\* a child of the concatenation on top of the stack has just failed
ChildFailed ==
    /\ stack # <<>>
    /\ stack[Len(stack)].kind = "concatenation"
    /\ ret = None

\* the backtrack record of the sibling j of the child that has just
\* returned (its position in the table, 0 when it has none)
SiblingRecord(j) ==
    TableFind(backtrack_table,
              [pattern_index_sequence EXCEPT ![Len(pattern_index_sequence)] = j])

\* the preceding siblings of the failed child that have a backtrack record
\* and have not backtracked to the start of their last match
CanBacktrack ==
    {j \in 0..(stack[Len(stack)].child_index - 1) :
        /\ SiblingRecord(j) # 0
        /\ ~backtrack_table[SiblingRecord(j)].backtracked_to_last_match_start}

\* C30: when child k of a concatenation fails, the concatenation resumes from
\* the nearest preceding child j < k that has a backtrack record and has not
\* backtracked to its zero-width start, with the cursor at the start of the
\* last match of that child; when there is no such child it fails, with the
\* cursor at the offset it started at and the tree-path its own path again
ConcatenationResumes ==
    [][ ChildFailed =>
          LET f == stack[Len(stack)]
          IN  IF CanBacktrack # {}
              THEN LET j == CHOOSE x \in CanBacktrack : \A y \in CanBacktrack : y <= x
                   IN  /\ Len(stack') = Len(stack)
                       /\ stack'[Len(stack)].child_index = j
                       /\ pos' = backtrack_table[SiblingRecord(j)].last_match_start
                       /\ pattern_index_sequence' =
                              [pattern_index_sequence EXCEPT ![Len(pattern_index_sequence)] = j]
              ELSE /\ Len(stack') = Len(stack) - 1
                   /\ ret' = None
                   /\ pos' = f.old_position
                   /\ pattern' = f.old_pattern
                   /\ pattern_index_sequence' = Front(pattern_index_sequence)
      ]_vars

----------------------------------------------------------------------------
(* Children evaluated again after the concatenation rewound to an earlier   *)
(* sibling.                                                                 *)

\* concatenations with two quantified children in front of a literal
LaterPatterns ==
    {Concatenation(<<LitQ("a", "ZeroOrMore"), LitQ("a", "ZeroOrMore"), Lit("b")>>),   \* a*a*b
     Concatenation(<<LitQ("a", "OneOrMore"), LitQ("a", "ZeroOrMore"), Lit("b")>>),    \* a+a*b
     Concatenation(<<LitQ("a", "ZeroOrMore"), LitQ("b", "ZeroOrMore"),
                     LitQ("a", "ZeroOrMore"), Lit("b")>>)}                            \* a*b*a*b

InitRewind == InitFor(LaterPatterns \X Targets)

SpecRewind == InitRewind /\ [][NextSearch]_vars

\* a Character or Dot child quantified with * or + that matched before in
\* this evaluation of the concatenation has just returned from a new
\* attempt, made after the concatenation rewound to an earlier sibling
LaterChildReturned ==
    /\ RunLeafReturned
    /\ stack[Len(stack)].kind = "concatenation"
    /\ lastCompute.pattern = Append(stack[Len(stack)].old_pattern, stack[Len(stack)].child_index)
    /\ stack[Len(stack)].children[stack[Len(stack)].child_index + 1] # 0
    /\ ~IsSome(stack[Len(stack)].rewound)

\* C31: when a concatenation has rewound to child j, a child after j that is
\* evaluated again is not capped by the end of a match it made before the
\* rewind: it returns what a first attempt at its cursor returns, the
\* maximal run
LaterChildNotCapped ==
    LaterChildReturned =>
        ret = RunResult(NodeAt(tree, lastCompute.pattern), lastCompute.from,
                        MaxRun(NodeAt(tree, lastCompute.pattern), lastCompute.from))

\* the tree-path (pattern_index_sequence) of the node at the position p of
\* the tree: the index 0 of the root followed by the child indices
PathOf(p) == <<0>> \o p

\* C32: during one evaluation of a concatenation the table position kept for
\* child i designates the record whose tree-path is the path of child i,
\* also after records of other nodes were inserted into the table, and the
\* lookup made after a backtrackable child succeeded finds a record (no panic)
StoredPositionsDesignateChildren ==
    /\ ret # Panic
    /\ \A i \in 1..Len(stack) :
          stack[i].kind = "concatenation" =>
              \A j \in 1..Len(stack[i].children) :
                  stack[i].children[j] # 0 =>
                      /\ stack[i].children[j] <= Len(backtrack_table)
                      /\ backtrack_table[stack[i].children[j]].index_sequence
                             = PathOf(Append(stack[i].old_pattern, j - 1))

----------------------------------------------------------------------------
(* The backtrack table *)

\* the tree-path s is the path of a node of the tree that supports
\* backtracking, is not the root and is not the child of a group
Eligible(s) ==
    /\ Len(s) >= 2
    /\ s[1] = 0
    /\ LET p == SubSeq(s, 2, Len(s))
           inTree[k \in 0..Len(p)] ==
               IF k = 0 THEN TRUE
               ELSE /\ inTree[k - 1]
                    /\ p[k] < Len(NodeAt(tree, SubSeq(p, 1, k - 1)).children)
       IN  /\ inTree[Len(p)]
           /\ supports_backtracking(NodeAt(tree, p))
           /\ NodeAt(tree, Front(p)).type # "Group"

\* C33: in every reachable state the backtrack table is strictly sorted by
\* tree-path (at most one record per path) and holds records only for nodes
\* that support backtracking, are not the root and whose parent is not a group
TableSortedAndEligible ==
    /\ \A i \in 1..(Len(backtrack_table) - 1) :
          SeqLess(backtrack_table[i].index_sequence, backtrack_table[i + 1].index_sequence)
    /\ \A i \in 1..Len(backtrack_table) : Eligible(backtrack_table[i].index_sequence)

\* the table holds at least four records: two of nodes nested three levels
\* below the root lie next to each other, after an earlier record and before
\* the record of a child of the root
TableWithNestedRecords ==
    /\ Len(backtrack_table) >= 4
    /\ \E i \in 1..(Len(backtrack_table) - 1) :
          /\ Len(backtrack_table[i].index_sequence) = 4
          /\ Len(backtrack_table[i + 1].index_sequence) = 2
          /\ i >= 3
          /\ Len(backtrack_table[i - 1].index_sequence) = 4

----------------------------------------------------------------------------
(* The offset loop of next *)

\* next, called directly, is about to attempt the root at the cursor
AttemptStarts ==
    /\ op = "next"
    /\ Len(stack) = 1
    /\ ret = NoRet

\* the attempt of the root made by next, called directly, has just returned
RootReturned ==
    /\ op = "next"
    /\ Len(stack) = 1
    /\ ret # NoRet
    /\ ret # Panic

\* C34: when next() computes a match with the cursor at c, the first attempt
\* of the root is made at c and every attempt starts with an empty backtrack
\* table; an attempt that succeeds at offset p makes next() return that match,
\* which starts at p; an attempt that fails at p < len(target) is followed by
\* the attempt at p + 1; next() returns None only after the attempt at
\* len(target) (or beyond) failed
NextScansOffsets ==
    [][ /\ AttemptStarts =>
              /\ backtrack_table = <<>>
              /\ lastCompute = NoCompute => pos = stack[1].enter
        /\ RootReturned =>
              IF IsSome(ret)
              THEN /\ op' = "idle"
                   /\ out'.match = ret
                   /\ ret.start = Min(lastCompute.from, Len(target))
              ELSE IF lastCompute.from < Len(target)
              THEN /\ op' = "next"
                   /\ Len(stack') = 1
                   /\ ret' = NoRet
                   /\ pos' = lastCompute.from + 1
                   /\ backtrack_table' = <<>>
              ELSE /\ op' = "idle"
                   /\ out'.match = None
      ]_vars

\* the first next() of a fresh Matcher returned a match that starts at
\* offset 2 or later: the attempts at the offsets before it failed
NextSkippedOffsets ==
    /\ out.op = "next"
    /\ histTag = "new"
    /\ Len(hist) = 1
    /\ IsSome(hist[1])
    /\ hist[1].start >= 2

\* C35: in the sequence of matches successive next() calls return, from a
\* fresh Matcher and when the matches are replayed from the cache after
\* reset(), the start offsets are strictly increasing (after a zero-width
\* match [p, p) the scan resumes at p + 1), so no range is returned twice
StartsStrictlyIncrease ==
    histTag \in {"new", "reset"} =>
        \A i \in 1..Len(hist) : \A j \in (i + 1)..Len(hist) :
            IsSome(hist[i]) /\ IsSome(hist[j]) => hist[i].start < hist[j].start

----------------------------------------------------------------------------
(* What a call of next leaves behind *)

\* a call of Iterator::next returns in this step, at once or at the end of a search
NextReturns ==
    \/ op = "idle" /\ op' = "idle" /\ out'.op = "next"
    \/ stack # <<>> /\ stack' = <<>> /\ op' # "panicked"

\* C36: whenever next() returns, with a match or with None, the backtrack
\* table and the tree-path are empty, the current node is the root, and the
\* match bound has the value it had when next() was entered; matching never
\* modifies the expression tree
NextLeavesNoTrace ==
    [][ NextReturns =>
            /\ backtrack_table' = <<>>
            /\ pattern_index_sequence' = <<>>
            /\ pattern' = <<>>
            /\ match_bound' = IF stack = <<>> THEN match_bound ELSE stack[1].old_match_bound
            /\ tree' = tree
      ]_vars

\* next has returned a match of a concatenation with a quantified child, whose
\* search wrote records to the backtrack table
NextReturnedAfterBacktrackableSearch ==
    /\ op = "idle"
    /\ out.op = "next"
    /\ IsSome(out.match)
    /\ tree.type = "Concatenation"
    /\ \E i \in 1..Len(tree.children) : tree.children[i].quantifier # "None"
    /\ backtrack_table = <<>>
    /\ pattern_index_sequence = <<>>

----------------------------------------------------------------------------
(* What escape writes *)

\* s with one backslash in front of each of ( ) | ? * + . and the backslash,
\* every other character copied
RECURSIVE EachMetacharacterEscaped(_)
EachMetacharacterEscaped(s) ==
    IF s = <<>> THEN <<>>
    ELSE (IF Head(s) \in Escapable THEN <<"\\", Head(s)>> ELSE <<Head(s)>>)
         \o EachMetacharacterEscaped(Tail(s))

\* the tokens the Scanner returns for the characters that have a special meaning
SpecialTokens == {"LeftParen", "RightParen", "Pipe", "Mark", "Star", "Plus", "Dot"}

\* C37: escape(s) puts an escape in front of every character of s that is a
\* metacharacter of the grammar, each of ( ) | ? * + . and the backslash, and
\* copies every other character unchanged, so that no character keeps a
\* special meaning: the Scanner returns no grouping, alternation, quantifier
\* or dot token for escape(s)
EscapeCoversEveryMetacharacter ==
    scanner.escaped
        => /\ scanner.source = EachMetacharacterEscaped(scanner.literal)
           /\ \A i \in 1..Len(scanner.tokens) : scanner.tokens[i].name \notin SpecialTokens

----------------------------------------------------------------------------
(* Where the Scanner returns EmptyString tokens *)

\* the indexes (from 1) of the characters of source that a backslash escapes,
\* reading from index i on
RECURSIVE EscapedFrom(_, _)
EscapedFrom(source, i) ==
    IF i >= Len(source) THEN {}
    ELSE IF source[i] = "\\" /\ source[i + 1] \in Escapable
    THEN {i + 1} \cup EscapedFrom(source, i + 2)
    ELSE EscapedFrom(source, i + 1)

\* the character at index i of source is c and is not escaped
Bare(source, i, c) ==
    /\ i \in 1..Len(source)
    /\ source[i] = c
    /\ i \notin EscapedFrom(source, 1)

\* the positions of source where the empty string stands between delimiters:
\* position p is the place before the character of index p (from 0), and
\* Len(source) the end of the pattern
EmptyStringPlaces(source) ==
    {p \in 0..Len(source) :
        \/ Len(source) = 0
        \/ p = 0 /\ Bare(source, 1, "|")
        \/ p = Len(source) /\ Bare(source, p, "|")
        \/ Bare(source, p, "|") /\ Bare(source, p + 1, "|")
        \/ Bare(source, p, "(") /\ Bare(source, p + 1, "|")
        \/ Bare(source, p, "|") /\ Bare(source, p + 1, ")")
        \/ Bare(source, p, "(") /\ Bare(source, p + 1, ")")}

\* C38: the tokenizer emits exactly one EmptyString token at each of: an empty
\* pattern; before a leading '|'; after a trailing '|'; between two adjacent
\* '|'; between '(' and '|'; between '|' and ')'; between '(' and ')',
\* whenever the delimiting '(' or '|' is not escaped (one that follows an
\* escaped backslash is not escaped), and nowhere else; never two EmptyString
\* tokens at the same position
EmptyStringTokensExactlyBetweenDelimiters ==
    LET ts == scanner.tokens
        empties == {i \in 1..Len(ts) : ts[i].name = "EmptyString"}
    IN  scanner.status # "unused" /\ ~scanner.escaped =>
            /\ \A i \in empties : ts[i].position \in EmptyStringPlaces(scanner.source)
            /\ \A i, j \in empties : ts[i].position = ts[j].position => i = j
            /\ scanner.status = "done" =>
                  \A p \in EmptyStringPlaces(scanner.source) :
                      \E i \in empties : ts[i].position = p

====
